---- MODULE Spec2Model ----
(***************************************************************************)
(* govar: the reference-identity and definition-point engine               *)
(* (references.go) together with the part of the renderer that consumes it *)
(* (renderAllValues / renderValue / renderStruct / formatArrayOrSlice /     *)
(* formatMap in dumper.go).                                                *)
(*                                                                         *)
(* A Go value graph is a table of reflect.Value occurrences.  Every node   *)
(* carries what the engine reads through the reflect package: Kind, Type,  *)
(* CanAddr, UnsafeAddr, Pointer, Elem, the fields / elements, the map keys *)
(* and the primitive value.  One top-level call runs                       *)
(*   resetState ; preScanBFS* ; unifyAllCopies ; assignReferenceIDs ;      *)
(*   determineDefinitionPoints* ; renderValue*                             *)
(* and each loop iteration of the traversals is one step.                  *)
(***************************************************************************)
EXTENDS Integers, Sequences, FiniteSets, TLC

(***************************************************************************)
(* Program constants.                                                      *)
(***************************************************************************)
MaxDepth == 15
MaxItems == 150
MaxInlineLength == 80
ShowTypes == TRUE
EmbedTypeMethods == TRUE
ShowMetaInformation == TRUE
\* base of the synthetic addresses of non-addressable primitives, 0xffffff00
\* in the code, and the start of the heap of a 64-bit build (0xc000000000 on
\* linux/amd64), where reflect.New and escaping locals are allocated.  TLC's
\* integers are 32-bit signed, so both are scaled down; what the engine uses
\* of them is their order: synthetic addresses lie below every heap address.
FakeBase == 16776960
HeapBase == 1073741824

\* the address of a variable that lies off bytes into the heap (0 is nil)
HeapAddr(off) == IF off = 0 THEN 0 ELSE HeapBase + off

(***************************************************************************)
(* Bounds of the model: sizes of the input families, number of top-level   *)
(* calls made on the same Dumper with the same input, and number of keys   *)
(* of the union-find exercised on its own.                                 *)
(***************************************************************************)
NObj == 2
NRoots == 2
NVals == 2
MaxRuns == 2
MaxPreemptions == 2
NKeys == 5

(***************************************************************************)
(* reflect.Type.String() of the types that occur in the inputs, in the     *)
(* byte order Go's string comparison uses.                                 *)
(***************************************************************************)
TypeNames ==
  << "**int", "**main.N", "*[0]int", "*[]int", "*int", "*interface {}",
     "*main.Inner", "*main.M", "*main.N", "*main.Outer", "*main.RS",
     "*main.X", "*main.ZST", "[0]int", "[]*int", "[]*main.N", "[][]string",
     "[]int", "[]interface {}", "[]string", "chan int", "float64", "func()",
     "int",
     "int8", "interface {}", "main.DeeperIDPointerTest", "main.H",
     "main.Inner", "main.M", "main.N", "main.NS", "main.Outer", "main.R",
     "main.RS", "main.S", "main.T", "main.W", "main.X", "main.ZST",
     "map[interface {}]**int", "map[string]*main.N", "string",
     "struct { SomeInt1 int; SomeInt2 int; SomeInt3 int; SomeInt4 int }" >>

TypeRank(t) == CHOOSE i \in 1..Len(TypeNames) : TypeNames[i] = t

(***************************************************************************)
(* Occurrences (reflect.Value).  elem = 0 / ptr = 0 is nil.  The inputs    *)
(* give addresses as offsets into the heap.  fl tells a float that is NaN  *)
(* or negative zero from a number; ro is the read-only flag reflect sets   *)
(* on what it reaches through an unexported field.                         *)
(***************************************************************************)
Node(kind, typ, canAddr, addr, ptr, elem, kids, keys, skeys, val, zst, names, cap, methods) ==
  [kind |-> kind, typ |-> typ, canAddr |-> canAddr, addr |-> HeapAddr(addr),
   ptr |-> HeapAddr(ptr), elem |-> elem, kids |-> kids, keys |-> keys,
   skeys |-> skeys, val |-> val, zst |-> zst,
   names |-> names, cap |-> cap, methods |-> methods,
   fl |-> "num", ro |-> FALSE]

NPrim(typ, canAddr, addr, val) ==
  Node("prim", typ, canAddr, addr, 0, 0, <<>>, <<>>, <<>>, val, FALSE,
       <<>>, 0, 0)
NPtr(typ, canAddr, addr, ptr, elem) ==
  Node("ptr", typ, canAddr, addr, ptr, elem, <<>>, <<>>, <<>>, 0, FALSE,
       <<>>, 0, 0)
NIface(typ, canAddr, addr, elem) ==
  Node("iface", typ, canAddr, addr, 0, elem, <<>>, <<>>, <<>>, 0, FALSE,
       <<>>, 0, 0)
\* names: the names of the fields; the type has no methods
NStruct(typ, names, canAddr, addr, kids, zst) ==
  Node("struct", typ, canAddr, addr, 0, 0, kids, <<>>, <<>>, 0, zst,
       names, 0, 0)
\* a struct of a type with methods (the number findTypeMethods returns)
NMethodStruct(typ, names, methods, canAddr, addr, kids) ==
  Node("struct", typ, canAddr, addr, 0, 0, kids, <<>>, <<>>, 0, FALSE,
       names, 0, methods)
\* a slice whose capacity is its length
NSlice(typ, canAddr, addr, ptr, kids) ==
  Node("slice", typ, canAddr, addr, ptr, 0, kids, <<>>, <<>>, 0, FALSE,
       <<>>, Len(kids), 0)
NArray(typ, canAddr, addr, kids, zst) ==
  Node("array", typ, canAddr, addr, 0, 0, kids, <<>>, <<>>, 0, zst,
       <<>>, 0, 0)
NMap(typ, canAddr, addr, ptr, keys, kids, skeys) ==
  Node("map", typ, canAddr, addr, ptr, 0, kids, keys, skeys, 0, FALSE,
       <<>>, 0, 0)
\* a float64: fl is "num" (the number val), "nan" or "negzero"
NFloat(canAddr, addr, val, fl) ==
  [NPrim("float64", canAddr, addr, val) EXCEPT !.fl = fl]
NChan(typ, canAddr, addr, ptr) ==
  Node("chan", typ, canAddr, addr, ptr, 0, <<>>, <<>>, <<>>, 0, FALSE,
       <<>>, 0, 0)
NFunc(typ, canAddr, addr, ptr) ==
  Node("func", typ, canAddr, addr, ptr, 0, <<>>, <<>>, <<>>, 0, FALSE,
       <<>>, 0, 0)
\* the occurrence n as reflect hands it out below an unexported field
ReadOnly(n) == [n EXCEPT !.ro = TRUE]


(***************************************************************************)
(* Input family 1: a web of heap structs dumped through pointers.          *)
(*   type N struct{ Val int; Next *N }                                     *)
(*   o_j = &N{Val: (j+1)/2}, o_j.Next = o_nx[j] (nil when nx[j] = 0)       *)
(*   Dump(o_rt[1], ..., o_rt[NRoots])                                      *)
(* reflect.ValueOf(pointer) is not addressable; the struct behind it and   *)
(* its fields are.  The first field shares the address of its struct.      *)
(***************************************************************************)
ObjAddr(j) == 16 * j
ObjNode(j) == NRoots + 3 * (j - 1) + 1

WebGraph(rt, nx) ==
  [i \in 1..(NRoots + 3 * NObj) |->
     IF i <= NRoots
       THEN NPtr("*main.N", FALSE, 0, ObjAddr(rt[i]), ObjNode(rt[i]))
       ELSE LET j == ((i - NRoots - 1) \div 3) + 1
                f == (i - NRoots - 1) % 3
            IN  CASE f = 0 -> NStruct("main.N", <<"Val", "Next">>, TRUE, ObjAddr(j), <<i + 1, i + 2>>, FALSE)
                  [] f = 1 -> NPrim("int", TRUE, ObjAddr(j), (j + 1) \div 2)
                  [] f = 2 -> IF nx[j] = 0
                                THEN NPtr("*main.N", TRUE, ObjAddr(j) + 8, 0, 0)
                                ELSE NPtr("*main.N", TRUE, ObjAddr(j) + 8,
                                          ObjAddr(nx[j]), ObjNode(nx[j]))]

WebInputs ==
  { [g |-> WebGraph(rt, nx), roots |-> [i \in 1..NRoots |-> i]] :
      rt \in [1..NRoots -> 1..NObj], nx \in [1..NObj -> 0..NObj] }

(***************************************************************************)
(* Input family 2: primitive fields and pointers to separate variables.    *)
(*   type R struct{ A, B int; PA, PB *int }                                *)
(*   x, y := 1, yv ;  Dump(R{a, b, pa, pb})   with pa, pb in {nil, &x, &y} *)
(* The struct is passed by value: makeAddressable copies it into a fresh   *)
(* addressable variable.                                                   *)
(***************************************************************************)
PrimTarget(sel) ==
  CASE sel = 0 -> [ptr |-> 0, elem |-> 0]
    [] sel = 1 -> [ptr |-> 32, elem |-> 6]
    [] sel = 2 -> [ptr |-> 40, elem |-> 7]

PrimGraph(a, b, pa, pb, yv) ==
  << NStruct("main.R", <<"A", "B", "PA", "PB">>, TRUE, 200, <<2, 3, 4, 5>>, FALSE),
     NPrim("int", TRUE, 200, a),
     NPrim("int", TRUE, 208, b),
     NPtr("*int", TRUE, 216, PrimTarget(pa).ptr, PrimTarget(pa).elem),
     NPtr("*int", TRUE, 224, PrimTarget(pb).ptr, PrimTarget(pb).elem),
     NPrim("int", TRUE, 32, 1),
     NPrim("int", TRUE, 40, yv) >>

PrimInputs ==
  { [g |-> PrimGraph(a, b, pa, pb, yv), roots |-> <<1>>] :
      a \in 1..NVals, b \in 1..NVals, pa \in 0..2, pb \in 0..2, yv \in 1..NVals }

(***************************************************************************)
(* Single inputs.                                                          *)
(***************************************************************************)
\* type N struct{ Next *N }; x := &N{}; x.Next = x; Dump(&x)
G_PtrPtrSelf ==
  << NPtr("**main.N", FALSE, 0, 24, 2),
     NPtr("*main.N", TRUE, 24, 16, 3),
     NStruct("main.N", <<"Next">>, TRUE, 16, <<4>>, FALSE),
     NPtr("*main.N", TRUE, 16, 16, 3) >>

\* type X struct{ Next any }; p := &X{}; p.Next = p; Dump(p)
G_IfaceSelf ==
  << NPtr("*main.X", FALSE, 0, 16, 2),
     NStruct("main.X", <<"Next">>, TRUE, 16, <<3>>, FALSE),
     NIface("interface {}", TRUE, 16, 4),
     NPtr("*main.X", FALSE, 0, 16, 2) >>

\* type S struct{ P *X }; type X struct{ I any }
\* x := &X{}; x.I = S{P: x}; Dump(x)
G_IfaceCopyCycle ==
  << NPtr("*main.X", FALSE, 0, 16, 2),
     NStruct("main.X", <<"I">>, TRUE, 16, <<3>>, FALSE),
     NIface("interface {}", TRUE, 16, 4),
     NStruct("main.S", <<"P">>, FALSE, 0, <<5>>, FALSE),
     NPtr("*main.X", FALSE, 0, 16, 2) >>

\* s := make([]any, 1); s[0] = s; Dump(s)
G_ValueCycle ==
  << NSlice("[]interface {}", TRUE, 200, 48, <<2>>),
     NIface("interface {}", TRUE, 48, 3),
     NSlice("[]interface {}", FALSE, 0, 48, <<2>>) >>

\* x := 5; p1, p2 := &x, &x
\* Dump(map[any]**int{int(1): &p1, int8(1): &p2})
\* both keys format as "1" under %+v, so sortMapKeys leaves their order to
\* the iteration order of the map
G_MapTie ==
  << NMap("map[interface {}]**int", TRUE, 200, 64, <<2, 3>>, <<4, 5>>, <<1, 1>>),
     NIface("interface {}", FALSE, 0, 6),
     NIface("interface {}", FALSE, 0, 7),
     NPtr("**int", FALSE, 0, 24, 8),
     NPtr("**int", FALSE, 0, 28, 9),
     NPrim("int", FALSE, 0, 1),
     NPrim("int8", FALSE, 0, 1),
     NPtr("*int", TRUE, 24, 16, 10),
     NPtr("*int", TRUE, 28, 16, 10),
     NPrim("int", TRUE, 16, 5) >>

\* type RS []any; s := make(RS, 1); s[0] = &s; Dump(s)
G_RecSlice ==
  << NSlice("main.RS", TRUE, 200, 48, <<2>>),
     NIface("interface {}", TRUE, 48, 3),
     NPtr("*main.RS", FALSE, 0, 16, 4),
     NSlice("main.RS", TRUE, 16, 48, <<2>>) >>

\* type Inner struct{ Val int }; type Outer struct{ I Inner }
\* o := &Outer{I: Inner{Val: 3}}; Dump(o, o, &o.I, &o.I)
G_FirstField ==
  << NPtr("*main.Outer", FALSE, 0, 16, 5),
     NPtr("*main.Outer", FALSE, 0, 16, 5),
     NPtr("*main.Inner", FALSE, 0, 16, 6),
     NPtr("*main.Inner", FALSE, 0, 16, 6),
     NStruct("main.Outer", <<"I">>, TRUE, 16, <<6>>, FALSE),
     NStruct("main.Inner", <<"Val">>, TRUE, 16, <<7>>, FALSE),
     NPrim("int", TRUE, 16, 3) >>

\* o := Outer{I: Inner{Val: 3}}; v1 := &o.I; v2 := &o.I; Dump(o, v1, v2)
G_EmbeddedField ==
  << NStruct("main.Outer", <<"I">>, TRUE, 200, <<2>>, FALSE),
     NStruct("main.Inner", <<"Val">>, TRUE, 200, <<3>>, FALSE),
     NPrim("int", TRUE, 200, 3),
     NPtr("*main.Inner", FALSE, 0, 16, 6),
     NPtr("*main.Inner", FALSE, 0, 16, 6),
     NStruct("main.Inner", <<"Val">>, TRUE, 16, <<7>>, FALSE),
     NPrim("int", TRUE, 16, 3) >>

\* type ZST struct{}; z1, z2 := ZST{}, ZST{}; x1, x2 := &z1, &z2
\* Dump(x1, x2, z1)      (all zero-sized values live at one address)
G_ZST ==
  << NPtr("*main.ZST", FALSE, 0, 8, 3),
     NPtr("*main.ZST", FALSE, 0, 8, 3),
     NStruct("main.ZST", <<>>, TRUE, 8, <<>>, TRUE) >>

\* shared := []string{"a", "b"}
\* Dump([][]string{shared, {"c", "b"}, shared})
G_SubSlice ==
  << NSlice("[][]string", TRUE, 200, 96, <<2, 3, 4>>),
     NSlice("[]string", TRUE, 96, 40, <<5, 6>>),
     NSlice("[]string", TRUE, 120, 64, <<7, 8>>),
     NSlice("[]string", TRUE, 144, 40, <<5, 6>>),
     NPrim("string", TRUE, 40, 1),
     NPrim("string", TRUE, 56, 2),
     NPrim("string", TRUE, 64, 3),
     NPrim("string", TRUE, 80, 2) >>

\* type T struct{ DeepPtr **int; IntPtr *int }
\* x := 6; p := &x; Dump(T{&p, p})
G_PtrToPtr ==
  << NStruct("main.T", <<"DeepPtr", "IntPtr">>, TRUE, 200, <<2, 3>>, FALSE),
     NPtr("**int", TRUE, 200, 24, 4),
     NPtr("*int", TRUE, 208, 16, 5),
     NPtr("*int", TRUE, 24, 16, 5),
     NPrim("int", TRUE, 16, 6) >>

\* the same struct value passed to two calls that run at the same time: each
\* call has a copy of its own (occurrences 1..3 and 6..8)
G_PtrToPtrTwice ==
  G_PtrToPtr \o
  << NStruct("main.T", <<"DeepPtr", "IntPtr">>, TRUE, 300, <<7, 8>>, FALSE),
     NPtr("**int", TRUE, 300, 24, 4),
     NPtr("*int", TRUE, 308, 16, 5) >>

\* type N struct{ Next *N }; a ring of MaxDepth+1 nodes n1 -> n2 -> ... -> n1
\* Dump(n1)
G_DeepCycle ==
  LET n == MaxDepth + 1 IN
  [i \in 1..(2 * n + 1) |->
     IF i = 1 THEN NPtr("*main.N", FALSE, 0, ObjAddr(1), 2)
     ELSE IF i % 2 = 0
       THEN NStruct("main.N", <<"Next">>, TRUE, ObjAddr(i \div 2), << i + 1 >>, FALSE)
       ELSE NPtr("*main.N", TRUE, ObjAddr(i \div 2),
                 ObjAddr(((i \div 2) % n) + 1), 2 * (((i \div 2) % n) + 1))]

\* s := []int{1}; Dump([]any{s, s})
G_IfaceSlices ==
  << NSlice("[]interface {}", TRUE, 200, 48, <<2, 3>>),
     NIface("interface {}", TRUE, 48, 4),
     NIface("interface {}", TRUE, 64, 5),
     NSlice("[]int", FALSE, 0, 96, <<6>>),
     NSlice("[]int", FALSE, 0, 96, <<6>>),
     NPrim("int", TRUE, 96, 1) >>

\* type W struct{ A [0]int; X int }; w1, w2 := W{X: 1}, W{X: 2}
\* Dump(&w1.A, w2)       (a zero-length array has size zero)
G_ZeroArray ==
  << NPtr("*[0]int", FALSE, 0, 16, 3),
     NStruct("main.W", <<"A", "X">>, TRUE, 200, <<4, 5>>, FALSE),
     NArray("[0]int", TRUE, 16, <<>>, TRUE),
     NArray("[0]int", TRUE, 200, <<>>, TRUE),
     NPrim("int", TRUE, 200, 2) >>

\* type Inner struct{ Val int }; a, b := Inner{3}, Inner{3}
\* Dump(&a, &b, a)
G_TwoSourcesCopy ==
  << NPtr("*main.Inner", FALSE, 0, 16, 4),
     NPtr("*main.Inner", FALSE, 0, 32, 6),
     NStruct("main.Inner", <<"Val">>, TRUE, 200, <<8>>, FALSE),
     NStruct("main.Inner", <<"Val">>, TRUE, 16, <<5>>, FALSE),
     NPrim("int", TRUE, 16, 3),
     NStruct("main.Inner", <<"Val">>, TRUE, 32, <<7>>, FALSE),
     NPrim("int", TRUE, 32, 3),
     NPrim("int", TRUE, 200, 3) >>

\* x := 1; Dump([]any{1, 1, 2, int8(1), &x})
G_IfacePrims ==
  << NSlice("[]interface {}", TRUE, 200, 48, <<2, 3, 4, 5, 6>>),
     NIface("interface {}", TRUE, 48, 7),
     NIface("interface {}", TRUE, 64, 8),
     NIface("interface {}", TRUE, 80, 9),
     NIface("interface {}", TRUE, 96, 10),
     NIface("interface {}", TRUE, 112, 11),
     NPrim("int", FALSE, 0, 1),
     NPrim("int", FALSE, 0, 1),
     NPrim("int", FALSE, 0, 2),
     NPrim("int8", FALSE, 0, 1),
     NPtr("*int", FALSE, 0, 16, 12),
     NPrim("int", TRUE, 16, 1) >>

\* x := 1; Dump(R{1, 1, &x, nil}), with x allocated above the copy of the
\* struct that makeAddressable creates
G_HighSource ==
  << NStruct("main.R", <<"A", "B", "PA", "PB">>, TRUE, 200, <<2, 3, 4, 5>>, FALSE),
     NPrim("int", TRUE, 200, 1),
     NPrim("int", TRUE, 208, 1),
     NPtr("*int", TRUE, 216, 400, 6),
     NPtr("*int", TRUE, 224, 0, 0),
     NPrim("int", TRUE, 400, 1) >>

\* x := 5; var i any = &x; Dump(&i, &x)
G_PtrIfacePtr ==
  << NPtr("*interface {}", FALSE, 0, 24, 3),
     NPtr("*int", FALSE, 0, 16, 5),
     NIface("interface {}", TRUE, 24, 4),
     NPtr("*int", FALSE, 0, 16, 5),
     NPrim("int", TRUE, 16, 5) >>

\* type DeeperIDPointerTest struct {
\*   PointerToInt2, PointerToInt3, PointerToInt4 *int
\*   Values struct{ SomeInt1, SomeInt2, SomeInt3, SomeInt4 int } }
\* i1, i2, i3, i4 := 111, 222, 333, 444
\* Dump(DeeperIDPointerTest{&i2, &i3, &i4, struct{...}{i1, i2, i3, i4}})
G_DeeperID ==
  << NStruct("main.DeeperIDPointerTest",
             <<"PointerToInt2", "PointerToInt3", "PointerToInt4", "Values">>,
             TRUE, 200, <<2, 3, 4, 5>>, FALSE),
     NPtr("*int", TRUE, 200, 16, 10),
     NPtr("*int", TRUE, 208, 24, 11),
     NPtr("*int", TRUE, 216, 32, 12),
     NStruct("struct { SomeInt1 int; SomeInt2 int; SomeInt3 int; SomeInt4 int }",
             <<"SomeInt1", "SomeInt2", "SomeInt3", "SomeInt4">>,
             TRUE, 224, <<6, 7, 8, 9>>, FALSE),
     NPrim("int", TRUE, 224, 111),
     NPrim("int", TRUE, 232, 222),
     NPrim("int", TRUE, 240, 333),
     NPrim("int", TRUE, 248, 444),
     NPrim("int", TRUE, 16, 222),
     NPrim("int", TRUE, 24, 333),
     NPrim("int", TRUE, 32, 444) >>

\* type NS struct{ S1, S2 []int; P *[]int }; var x []int; Dump(NS{P: &x})
\* (three nil slices, one of them behind a pointer)
G_NilSlices ==
  << NStruct("main.NS", <<"S1", "S2", "P">>, TRUE, 200, <<2, 3, 4>>, FALSE),
     NSlice("[]int", TRUE, 200, 0, <<>>),
     NSlice("[]int", TRUE, 224, 0, <<>>),
     NPtr("*[]int", TRUE, 248, 16, 5),
     NSlice("[]int", TRUE, 16, 0, <<>>) >>

\* x := math.NaN(); Dump([]any{x, x, 0.0, math.Copysign(0, -1)})
G_Floats ==
  << NSlice("[]interface {}", TRUE, 200, 48, <<2, 3, 4, 5>>),
     NIface("interface {}", TRUE, 48, 6),
     NIface("interface {}", TRUE, 64, 7),
     NIface("interface {}", TRUE, 80, 8),
     NIface("interface {}", TRUE, 96, 9),
     NFloat(FALSE, 0, 0, "nan"),
     NFloat(FALSE, 0, 0, "nan"),
     NFloat(FALSE, 0, 0, "num"),
     NFloat(FALSE, 0, 0, "negzero") >>

\* type H struct{ V, v, s any }; Dump(H{V: 1, v: 1, s: []int{7}})
\* (the values in v and s are read-only and not addressable)
G_Hidden ==
  << NStruct("main.H", <<"V", "v", "s">>, TRUE, 200, <<2, 3, 4>>, FALSE),
     NIface("interface {}", TRUE, 200, 5),
     ReadOnly(NIface("interface {}", TRUE, 216, 6)),
     ReadOnly(NIface("interface {}", TRUE, 232, 7)),
     NPrim("int", FALSE, 0, 1),
     ReadOnly(NPrim("int", FALSE, 0, 1)),
     ReadOnly(NSlice("[]int", FALSE, 0, 96, <<8>>)),
     ReadOnly(NPrim("int", TRUE, 96, 7)) >>

\* ch := make(chan int); f := func() {}; Dump([]any{ch, ch, f})
G_Chans ==
  << NSlice("[]interface {}", TRUE, 200, 48, <<2, 3, 4>>),
     NIface("interface {}", TRUE, 48, 5),
     NIface("interface {}", TRUE, 64, 6),
     NIface("interface {}", TRUE, 80, 7),
     NChan("chan int", FALSE, 0, 320),
     NChan("chan int", FALSE, 0, 320),
     NFunc("func()", FALSE, 0, 336) >>

\* type M struct{ A int }; func (M) F() {}; m := &M{A: 1}; Dump(m, m)
G_Methods ==
  << NPtr("*main.M", FALSE, 0, 16, 3),
     NPtr("*main.M", FALSE, 0, 16, 3),
     NMethodStruct("main.M", <<"A">>, 1, TRUE, 16, <<4>>),
     NPrim("int", TRUE, 16, 1) >>

SingleInputs ==
  { [g |-> G_PtrPtrSelf, roots |-> <<1>>],
    [g |-> G_NilSlices, roots |-> <<1>>],
    [g |-> G_Floats, roots |-> <<1>>],
    [g |-> G_Hidden, roots |-> <<1>>],
    [g |-> G_Chans, roots |-> <<1>>],
    [g |-> G_DeeperID, roots |-> <<1>>],
    [g |-> G_Methods, roots |-> <<1, 2>>],
    [g |-> G_PtrIfacePtr, roots |-> <<1, 2>>],
    [g |-> G_HighSource, roots |-> <<1>>],
    [g |-> G_IfacePrims, roots |-> <<1>>],
    [g |-> G_TwoSourcesCopy, roots |-> <<1, 2, 3>>],
    [g |-> G_ZeroArray, roots |-> <<1, 2>>],
    [g |-> G_IfaceSlices, roots |-> <<1>>],
    [g |-> G_DeepCycle, roots |-> <<1>>],
    [g |-> G_IfaceSelf, roots |-> <<1>>],
    [g |-> G_IfaceCopyCycle, roots |-> <<1>>],
    [g |-> G_ValueCycle, roots |-> <<1>>],
    [g |-> G_MapTie, roots |-> <<1>>],
    [g |-> G_RecSlice, roots |-> <<1>>],
    [g |-> G_FirstField, roots |-> <<1, 2, 3, 4>>],
    [g |-> G_EmbeddedField, roots |-> <<1, 4, 5>>],
    [g |-> G_ZST, roots |-> <<1, 2, 3>>],
    [g |-> G_SubSlice, roots |-> <<1>>],
    [g |-> G_PtrToPtr, roots |-> <<1>>] }

Inputs == WebInputs \cup PrimInputs \cup SingleInputs


(***************************************************************************)
(* State.  g and roots are the input of the call (addressableVars); the    *)
(* seven maps are the Dumper's reference-tracking fields.  queue and       *)
(* traversed are the locals of the running BFS, groups the fingerprint     *)
(* groups unifyAllCopies has still to process, stack the pending           *)
(* renderValue calls.  out, visitLog, prevIDs and prevDefs record what     *)
(* happened (the printed markers, the occurrences the definition pass      *)
(* compared, the result of the previous call).  visitedPointers is the     *)
(* Dumper's field of that name; only calls with TrackReferences off use    *)
(* it.                                                                     *)
(***************************************************************************)
VARIABLES g, roots, pc, ri, run, queue, traversed,
          referenceStats, referenceIDs, canonicalRoots, primitiveInstances,
          definitionPoints, renderedIDs, fakeAddrs,
          groups, stack, out, visitLog, prevIDs, prevDefs,
          shared, cur, parked, solo, frame, preemptions,
          visitedPointers

\* Two goroutines (SpecConc).  The variables above hold the locals of the
\* goroutine that is running (cur) and the Dumper it calls; parked holds the
\* other goroutine's locals, and its Dumper when the two do not share one.
\* solo records what each goroutine's call produced when it ran alone.
\* frame holds the locals of the loop iteration the running goroutine is
\* in the middle of, where the passes are followed access by access.
goroutines == << shared, cur, parked, solo, frame, preemptions >>

vars == << g, roots, pc, ri, run, queue, traversed,
           referenceStats, referenceIDs, canonicalRoots, primitiveInstances,
           definitionPoints, renderedIDs, fakeAddrs,
           groups, stack, out, visitLog, prevIDs, prevDefs,
           shared, cur, parked, solo, frame, preemptions, visitedPointers >>

EmptyMap == [x \in {} |-> x]

(***************************************************************************)
(* reflect helpers (reflect_helpers.go).  Node 0 is the invalid Value.     *)
(***************************************************************************)
RECURSIVE deref(_)
deref(v) ==
  IF v = 0 THEN 0
  ELSE IF g[v].kind \in {"ptr", "iface"}
         THEN IF g[v].elem = 0 THEN 0 ELSE deref(g[v].elem)
         ELSE v

RECURSIVE isPointerRef(_)
isPointerRef(v) ==
  CASE g[v].kind = "ptr" -> TRUE
    [] g[v].kind = "iface" -> IF g[v].elem = 0 THEN FALSE ELSE isPointerRef(g[v].elem)
    [] OTHER -> FALSE

RECURSIVE CountPtrHops(_)
CountPtrHops(v) ==
  IF g[v].kind = "ptr"
    THEN IF g[v].elem = 0 THEN 1 ELSE 1 + CountPtrHops(g[v].elem)
    ELSE 0

RECURSIVE getIndirectionLevel(_)
getIndirectionLevel(v) ==
  IF g[v].kind = "iface"
    THEN IF g[v].elem = 0 THEN 0 ELSE getIndirectionLevel(g[v].elem)
    ELSE CountPtrHops(v)

isPrimitiveKind(k) == k = "prim"

isCompositeOrInterface(k) == k \in {"struct", "map", "slice", "array", "iface"}

isNil(v) ==
  CASE g[v].kind \in {"ptr", "iface"} -> g[v].elem = 0
    [] g[v].kind \in {"slice", "map", "chan", "func"} -> g[v].ptr = 0
    [] OTHER -> FALSE

\* tryExport: whether the Value it returns can be turned into an interface
\* (a read-only Value only if it is addressable)
tryExport(v) == ~g[v].ro \/ g[v].canAddr

isSimpleValue(v) == v = 0 \/ g[v].kind = "prim"

(***************************************************************************)
(* Canonical keys (references.go).                                         *)
(***************************************************************************)
Key(addr, typ) == [addr |-> addr, typ |-> typ]
NoKey == Key(0, "")

\* &RefStats{}
ZeroStats ==
  [total |-> 0, ptr |-> 0, definitionLevel |-> 0, minPointerRefLevel |-> 0,
   valueKind |-> "", isPrimitive |-> FALSE, value |-> 0]

\* the locals of a goroutine that is between two iterations of a loop.  In
\* an iteration: op is the access it makes next; inst, t, n, ret belong to
\* the getRawKey or getInstanceKey call in progress and fk, path, ret to the
\* findRoot call; key, ok and ik, ikok are the keys returned, root and root1
\* the roots; att tells that the RefStats held is the one the map has under
\* key, st is that RefStats otherwise, tmp what x++ has read; todo, seen,
\* live, held are the state of a range over d.referenceStats; lists is
\* valueToKeys; keys, i, srcs, cps, pairs serve one value list; mem, mrg,
\* acc are rootToMembers, mergedStats and newStats; sorted and idc the rest
\* of sortedRoots and idCounter; hasID, exists, inc, act, log the reference
\* check
NoFrame ==
  [op |-> "", ret |-> "", inst |-> FALSE, t |-> 0, n |-> 0,
   key |-> NoKey, ok |-> FALSE, ik |-> NoKey, ikok |-> FALSE, ikset |-> FALSE,
   fk |-> NoKey, path |-> <<>>, root |-> NoKey, root1 |-> NoKey,
   att |-> FALSE, st |-> ZeroStats, tmp |-> 0,
   todo |-> {}, seen |-> {}, live |-> FALSE, held |-> EmptyMap,
   lists |-> EmptyMap, keys |-> <<>>, i |-> 0, srcs |-> <<>>, cps |-> <<>>,
   pairs |-> <<>>, mem |-> EmptyMap, mrg |-> EmptyMap,
   acc |-> [total |-> 0, ptr |-> 0], sorted |-> <<>>, idc |-> 0,
   hasID |-> FALSE, exists |-> FALSE, inc |-> EmptyMap, act |-> "",
   log |-> EmptyMap]

\* the entry of d.fakeAddrs a non-addressable primitive is looked up under:
\* its value as an interface (dynamic type and value).  The map compares
\* keys with ==, so 0.0 and -0.0 are one entry (both have val 0).
FakeSlot(v) == << g[v].typ, g[v].val, 0 >>

\* NaN is not equal to itself: as a map key it is never found again
FakeHit(fa, v) == g[v].fl # "nan" /\ FakeSlot(v) \in DOMAIN fa

\* the entry a lookup that failed inserts; every NaN makes an entry of its
\* own, told apart here by the size of the map at the insertion
FakeEntry(fa, v) ==
  IF g[v].fl = "nan"
    THEN << g[v].typ, g[v].val, 1 + Cardinality(DOMAIN fa) >>
    ELSE FakeSlot(v)

FakeAddrOf(fa, v) ==
  IF FakeHit(fa, v) THEN fa[FakeSlot(v)]
  ELSE FakeBase + Cardinality(DOMAIN fa)

FakeAddrsAfter(fa, v) ==
  IF FakeHit(fa, v) THEN fa
  ELSE fa @@ (FakeEntry(fa, v) :> (FakeBase + Cardinality(DOMAIN fa)))

\* variant: a non-addressable struct gets the key (0, type)
getRawKey_KeyForCopies(fa, v) ==
  LET t == deref(v) IN
  IF t = 0 THEN [ok |-> FALSE, key |-> NoKey, fa |-> fa]
  ELSE IF g[t].canAddr
    THEN [ok |-> TRUE, key |-> Key(g[t].addr, g[t].typ), fa |-> fa]
  ELSE IF g[t].kind \in {"map", "slice", "chan", "func"}
    THEN IF g[t].ptr = 0
           THEN [ok |-> FALSE, key |-> NoKey, fa |-> fa]
           ELSE [ok |-> TRUE, key |-> Key(g[t].ptr, g[t].typ), fa |-> fa]
  ELSE IF isPrimitiveKind(g[t].kind)
    THEN IF ~tryExport(t)
           THEN [ok |-> FALSE, key |-> NoKey, fa |-> fa]
           ELSE [ok |-> TRUE, key |-> Key(FakeAddrOf(fa, t), g[t].typ),
                 fa |-> FakeAddrsAfter(fa, t)]
  ELSE [ok |-> TRUE, key |-> Key(0, g[t].typ), fa |-> fa]

\* getRawKey: [ok, key, fa] (fa is d.fakeAddrs after the call)
getRawKey(fa, v) ==
  LET t == deref(v) IN
  IF t = 0 THEN [ok |-> FALSE, key |-> NoKey, fa |-> fa]
  ELSE IF g[t].canAddr
    THEN [ok |-> TRUE, key |-> Key(g[t].addr, g[t].typ), fa |-> fa]
  ELSE IF g[t].kind \in {"map", "slice", "chan", "func"}
    THEN IF g[t].ptr = 0
           THEN [ok |-> FALSE, key |-> NoKey, fa |-> fa]
           ELSE [ok |-> TRUE, key |-> Key(g[t].ptr, g[t].typ), fa |-> fa]
  ELSE IF isPrimitiveKind(g[t].kind)
    THEN IF ~tryExport(t)
           THEN [ok |-> FALSE, key |-> NoKey, fa |-> fa]
           ELSE [ok |-> TRUE, key |-> Key(FakeAddrOf(fa, t), g[t].typ),
                 fa |-> FakeAddrsAfter(fa, t)]
  ELSE [ok |-> FALSE, key |-> NoKey, fa |-> fa]

\* getInstanceKey: the key of the occurrence itself, no final dereference
RECURSIVE getInstanceKey(_, _)
getInstanceKey(fa, v) ==
  IF v = 0 THEN [ok |-> FALSE, key |-> NoKey, fa |-> fa]
  ELSE IF g[v].kind = "iface"
    THEN IF g[v].elem = 0
           THEN [ok |-> FALSE, key |-> NoKey, fa |-> fa]
           ELSE getInstanceKey(fa, g[v].elem)
  ELSE IF g[v].canAddr
    THEN [ok |-> TRUE, key |-> Key(g[v].addr, g[v].typ), fa |-> fa]
  ELSE IF g[v].kind \in {"ptr", "map", "slice", "chan", "func"}
    THEN IF isNil(v)
           THEN [ok |-> FALSE, key |-> NoKey, fa |-> fa]
           ELSE [ok |-> TRUE, key |-> Key(g[v].ptr, g[v].typ), fa |-> fa]
  ELSE IF isPrimitiveKind(g[v].kind)
    THEN IF ~tryExport(v)
           THEN [ok |-> FALSE, key |-> NoKey, fa |-> fa]
           ELSE [ok |-> TRUE, key |-> Key(FakeAddrOf(fa, v), g[v].typ),
                 fa |-> FakeAddrsAfter(fa, v)]
  ELSE [ok |-> FALSE, key |-> NoKey, fa |-> fa]

(***************************************************************************)
(* Union-find over canonical keys.                                         *)
(***************************************************************************)
RECURSIVE RootOf(_, _)
RootOf(cr, k) ==
  IF k \notin DOMAIN cr \/ cr[k] = k THEN k ELSE RootOf(cr, cr[k])

\* variant: the lookup re-points the key at itself instead of at its root
RECURSIVE findRoot_DetachKey(_, _)
findRoot_DetachKey(cr, k) ==
  IF k \notin DOMAIN cr THEN cr @@ (k :> k)
  ELSE IF cr[k] = k THEN cr
  ELSE [findRoot_DetachKey(cr, cr[k]) EXCEPT ![k] = k]

\* variant: a key without an entry is returned as a root but not entered
RECURSIVE findRoot_NoSelfEntry(_, _)
findRoot_NoSelfEntry(cr, k) ==
  IF k \notin DOMAIN cr THEN cr
  ELSE IF cr[k] = k THEN cr
  ELSE [findRoot_NoSelfEntry(cr, cr[k]) EXCEPT ![k] = RootOf(cr, k)]

\* findRoot: d.canonicalRoots after the call (a missing key is entered as its
\* own root, every key on the path is re-pointed at the root)
RECURSIVE findRoot(_, _)
findRoot(cr, k) ==
  IF k \notin DOMAIN cr THEN cr @@ (k :> k)
  ELSE IF cr[k] = k THEN cr
  ELSE [findRoot(cr, cr[k]) EXCEPT ![k] = RootOf(cr, k)]

\* variant: the root with the larger address becomes the parent
union_LargerWins(cr, k1, k2) ==
  LET cr1 == findRoot(cr, k1)
      root1 == RootOf(cr, k1)
      cr2 == findRoot(cr1, k2)
      root2 == RootOf(cr1, k2)
  IN  IF root1 # root2
        THEN IF root1.addr > root2.addr
               THEN [cr2 EXCEPT ![root2] = root1]
               ELSE [cr2 EXCEPT ![root1] = root2]
        ELSE cr2

union(cr, k1, k2) ==
  LET cr1 == findRoot(cr, k1)
      root1 == RootOf(cr, k1)
      cr2 == findRoot(cr1, k2)
      root2 == RootOf(cr1, k2)
  IN  IF root1 # root2
        THEN IF root1.addr < root2.addr
               THEN [cr2 EXCEPT ![root2] = root1]
               ELSE [cr2 EXCEPT ![root1] = root2]
        ELSE cr2


(***************************************************************************)
(* Pass 1: preScanBFS / processValue.                                      *)
(***************************************************************************)
IsZeroSizedType(typ) == typ \in {"main.ZST", "[0]int"}

\* what stats.value holds in place of a value that cannot be turned into
\* an interface (the string "<unexported>")
Unexported == -1

\* getOrCreateStats: the entry of a key that has none yet
NewStats(t, level) ==
  [total |-> 0, ptr |-> 0, definitionLevel |-> level, minPointerRefLevel |-> -1,
   valueKind |-> g[t].kind, isPrimitive |-> isPrimitiveKind(g[t].kind),
   value |-> IF tryExport(t) THEN t ELSE Unexported]

\* processValue: [stats, fa, prims] = referenceStats, fakeAddrs and
\* primitiveInstances after the call
processValue(st, fa, prims, v, level) ==
  LET isPtr == isPointerRef(v)
               \/ (g[v].kind \in {"slice", "map"} /\ ~isNil(v))
      t == deref(v)
      rk == getRawKey(fa, t)
  IN  IF t = 0 \/ ~rk.ok
        THEN [stats |-> st, fa |-> fa, prims |-> prims]
        ELSE LET old == IF rk.key \in DOMAIN st THEN st[rk.key] ELSE NewStats(t, level)
                 cnt == [old EXCEPT !.total = @ + 1]
                 new == IF isPtr
                          THEN [cnt EXCEPT !.ptr = @ + 1,
                                           !.minPointerRefLevel =
                                              IF @ = -1 \/ level < @ THEN level ELSE @]
                          ELSE cnt
             IN  [stats |-> (rk.key :> new) @@ st,
                  fa |-> rk.fa,
                  prims |-> IF new.isPrimitive /\ rk.key \notin DOMAIN prims
                              THEN prims @@ (rk.key :> new.value)
                              ELSE prims]

\* sortMapKeys: the orders the sort can return.  Keys that compare equal
\* under its comparison keep the (random) order reflect.MapKeys gave them.
MapOrders(t) ==
  LET n == Len(g[t].keys) IN
  { p \in [1..n -> 1..n] :
      /\ \A i, j \in 1..n : i # j => p[i] # p[j]
      /\ \A i, j \in 1..n : i < j => g[t].skeys[p[i]] <= g[t].skeys[p[j]] }

ChildOrders(v) ==
  LET t == deref(v) IN
  IF t # 0 /\ g[t].kind = "map" THEN MapOrders(t) ELSE { <<>> }

RECURSIVE MapItems(_, _, _, _)
MapItems(t, ord, i, level) ==
  IF i > Len(ord) THEN <<>>
  ELSE << [v |-> g[t].keys[ord[i]], level |-> level],
          [v |-> g[t].kids[ord[i]], level |-> level] >>
       \o MapItems(t, ord, i + 1, level)

\* addChildrenToQueue: the items appended for v
Children(v, level, ord) ==
  LET t == deref(v) IN
  CASE t = 0 -> <<>>
    [] t # 0 /\ g[t].kind \in {"struct", "slice", "array"} ->
         [i \in 1..Len(g[t].kids) |-> [v |-> g[t].kids[i], level |-> level + 1]]
    [] t # 0 /\ g[t].kind = "map" -> MapItems(t, ord, 1, level + 1)
    [] OTHER -> <<>>

\* the part of a BFS iteration both traversals share: whether the children of
\* the item are appended (composite target with a key not yet traversed)
Expands(fa, trav, v) ==
  LET t == deref(v) IN
  /\ t # 0
  /\ isCompositeOrInterface(g[t].kind)
  /\ getRawKey(fa, t).ok
  /\ getRawKey(fa, t).key \notin trav

Init ==
  /\ \E in \in Inputs : g = in.g /\ roots = in.roots
  /\ pc = "idle"
  /\ ri = 0
  /\ run = 0
  /\ queue = <<>>
  /\ traversed = {}
  /\ referenceStats = EmptyMap
  /\ referenceIDs = EmptyMap
  /\ canonicalRoots = EmptyMap
  /\ primitiveInstances = EmptyMap
  /\ definitionPoints = EmptyMap
  /\ renderedIDs = EmptyMap
  /\ fakeAddrs = EmptyMap
  /\ groups = {}
  /\ stack = <<>>
  /\ out = <<>>
  /\ visitLog = <<>>
  /\ prevIDs = EmptyMap
  /\ prevDefs = EmptyMap
  /\ shared = FALSE
  /\ cur = 1
  /\ parked = EmptyMap
  /\ solo = EmptyMap
  /\ frame = NoFrame
  /\ preemptions = 0
  /\ visitedPointers = {}

\* variant: resetState keeps the synthetic addresses of the earlier call
\* the occurrences stored inside the variable of v: v, its fields, its
\* array elements
RECURSIVE InlineParts(_)
InlineParts(v) ==
  IF v = 0 THEN {}
  ELSE IF g[v].kind \in {"struct", "array"}
    THEN {v} \cup UNION { InlineParts(g[v].kids[i]) : i \in 1..Len(g[v].kids) }
  ELSE {v}

\* the occurrences inside the variables makeAddressable allocates: every
\* argument that is no pointer is copied into a reflect.New variable (one
\* of size zero is not allocated: reflect.New returns the same address)
RootCopies ==
  UNION { InlineParts(roots[i]) :
            i \in { j \in 1..Len(roots) :
                      /\ roots[j] # 0
                      /\ g[roots[j]].kind \notin {"ptr", "iface"}
                      /\ g[roots[j]].canAddr
                      /\ ~g[roots[j]].zst } }

\* distance between the copies two calls make of the same argument when the
\* later copy is not allocated where the earlier one was
CopyStride == 4096

\* the arguments as the next call of a Dumper that tracks no references sees
\* them: the earlier copy is still referenced from visitedPointers, so the
\* new one lies elsewhere
MadeAddressable ==
  IF run = 0 THEN g
  ELSE [v \in DOMAIN g |->
          IF v \in RootCopies /\ g[v].canAddr
            THEN [g[v] EXCEPT !.addr = @ + CopyStride]
            ELSE g[v]]

\* the copies of the arguments allocated away from where the input has them
NewCopies ==
  [v \in DOMAIN g |->
     IF v \in RootCopies /\ g[v].canAddr /\ g[v].addr < HeapBase + CopyStride
       THEN [g[v] EXCEPT !.addr = @ + CopyStride]
       ELSE g[v]]

\* the arguments as the next call of a tracking Dumper may see them.  The
\* tracking maps hold addresses as integers, which keeps no copy alive: the
\* allocator may hand out the address of the previous call's copy again, or
\* another one.
CallCopies == IF run = 0 THEN {g} ELSE {g, NewCopies}

BeginCall_KeepFakeAddrs ==
  /\ pc \in {"idle", "done"}
  /\ run < MaxRuns
  /\ run' = run + 1
  /\ prevIDs' = referenceIDs
  /\ prevDefs' = definitionPoints
  /\ referenceStats' = EmptyMap
  /\ referenceIDs' = EmptyMap
  /\ canonicalRoots' = EmptyMap
  /\ primitiveInstances' = EmptyMap
  /\ definitionPoints' = EmptyMap
  /\ renderedIDs' = EmptyMap
  /\ pc' = "prescan"
  /\ ri' = 1
  /\ queue' = << [v |-> roots[1], level |-> 0] >>
  /\ traversed' = {}
  /\ groups' = {}
  /\ stack' = <<>>
  /\ out' = <<>>
  /\ visitLog' = <<>>
  /\ g' \in CallCopies
  /\ UNCHANGED << roots, fakeAddrs >>
  /\ UNCHANGED << goroutines, visitedPointers >>

\* renderAllValues up to the first preScanBFS: makeAddressable for every
\* argument, resetState and the queue of the first root.  A Dumper serves
\* MaxRuns calls with the same values.
BeginCall ==
  /\ pc \in {"idle", "done"}
  /\ run < MaxRuns
  /\ run' = run + 1
  /\ prevIDs' = referenceIDs
  /\ prevDefs' = definitionPoints
  /\ referenceStats' = EmptyMap
  /\ referenceIDs' = EmptyMap
  /\ canonicalRoots' = EmptyMap
  /\ primitiveInstances' = EmptyMap
  /\ definitionPoints' = EmptyMap
  /\ renderedIDs' = EmptyMap
  /\ fakeAddrs' = EmptyMap
  /\ pc' = "prescan"
  /\ ri' = 1
  /\ queue' = << [v |-> roots[1], level |-> 0] >>
  /\ traversed' = {}
  /\ groups' = {}
  /\ stack' = <<>>
  /\ out' = <<>>
  /\ visitLog' = <<>>
  /\ g' \in CallCopies
  /\ UNCHANGED roots
  /\ UNCHANGED << goroutines, visitedPointers >>

\* variant: unification starts as soon as the first root has been scanned
PreScanStep_FirstRootOnly ==
  /\ pc = "prescan"
  /\ queue # <<>>
  /\ LET item == Head(queue)
         pv == IF item.v = 0
                 THEN [stats |-> referenceStats, fa |-> fakeAddrs,
                       prims |-> primitiveInstances]
                 ELSE processValue(referenceStats, fakeAddrs, primitiveInstances,
                                   item.v, item.level)
         exp == item.v # 0 /\ Expands(pv.fa, traversed, item.v)
     IN  \E ord \in (IF exp THEN ChildOrders(item.v) ELSE { <<>> }) :
           LET q == IF exp THEN Tail(queue) \o Children(item.v, item.level, ord)
                           ELSE Tail(queue)
               trav == IF exp THEN traversed \cup {getRawKey(pv.fa, item.v).key}
                              ELSE traversed
           IN  /\ referenceStats' = pv.stats
               /\ fakeAddrs' = pv.fa
               /\ primitiveInstances' = pv.prims
               /\ IF q # <<>>
                    THEN /\ queue' = q
                         /\ traversed' = trav
                         /\ UNCHANGED << pc, ri >>
                    ELSE /\ queue' = <<>>
                         /\ traversed' = {}
                         /\ ri' = 0
                         /\ pc' = "unify"
  /\ UNCHANGED << g, roots, run, referenceIDs, canonicalRoots, definitionPoints,
                  renderedIDs, groups, stack, out, visitLog, prevIDs, prevDefs >>
  /\ UNCHANGED << goroutines, visitedPointers >>

\* one iteration of the loop of preScanBFS; when the queue runs empty the
\* scan of the next root starts, and after the last root the call goes on
\* to unifyAllCopies
PreScanStep ==
  /\ pc = "prescan"
  /\ queue # <<>>
  /\ LET item == Head(queue)
         pv == IF item.v = 0
                 THEN [stats |-> referenceStats, fa |-> fakeAddrs,
                       prims |-> primitiveInstances]
                 ELSE processValue(referenceStats, fakeAddrs, primitiveInstances,
                                   item.v, item.level)
         exp == item.v # 0 /\ Expands(pv.fa, traversed, item.v)
     IN  \E ord \in (IF exp THEN ChildOrders(item.v) ELSE { <<>> }) :
           LET q == IF exp THEN Tail(queue) \o Children(item.v, item.level, ord)
                           ELSE Tail(queue)
               trav == IF exp THEN traversed \cup {getRawKey(pv.fa, item.v).key}
                              ELSE traversed
           IN  /\ referenceStats' = pv.stats
               /\ fakeAddrs' = pv.fa
               /\ primitiveInstances' = pv.prims
               /\ IF q # <<>>
                    THEN /\ queue' = q
                         /\ traversed' = trav
                         /\ UNCHANGED << pc, ri >>
                    ELSE IF ri < Len(roots)
                      THEN /\ queue' = << [v |-> roots[ri + 1], level |-> 0] >>
                           /\ traversed' = {}
                           /\ ri' = ri + 1
                           /\ UNCHANGED pc
                      ELSE /\ queue' = <<>>
                           /\ traversed' = {}
                           /\ ri' = 0
                           /\ pc' = "unify"
  /\ UNCHANGED << g, roots, run, referenceIDs, canonicalRoots, definitionPoints,
                  renderedIDs, groups, stack, out, visitLog, prevIDs, prevDefs >>
  /\ UNCHANGED << goroutines, visitedPointers >>

(***************************************************************************)
(* Pass 2: unifyAllCopies.                                                 *)
(***************************************************************************)
RECURSIVE Flatten(_)
Flatten(ss) == IF ss = <<>> THEN <<>> ELSE Head(ss) \o Flatten(Tail(ss))

\* how fmt prints a primitive under %#v: numbers bare, strings quoted
FmtClass(typ) == IF typ = "string" THEN 2 ELSE 1

\* %#v of a primitive: a float64 that is a whole number prints like the
\* integer, NaN as NaN and negative zero as -0
FmtPrim(v) ==
  CASE g[v].fl = "nan" -> << 1, 3, 0 >>
    [] g[v].fl = "negzero" -> << 1, 4, 0 >>
    [] OTHER -> << 1, FmtClass(g[v].typ), g[v].val >>

\* fmt.Sprintf("%#v", value) as a token list.  Below the top level a pointer
\* prints as (type)(address), and so does a channel or a function at any
\* level; interfaces, structs, slices and maps are walked by value.  fuel
\* counts the nesting fmt still has room for.
RECURSIVE Fingerprint(_, _)
Fingerprint(v, fuel) ==
  IF fuel = 0 THEN <<>>
  ELSE IF v = Unexported THEN << 9 >>
  ELSE CASE g[v].kind = "prim" -> FmtPrim(v)
         [] g[v].kind \in {"ptr", "chan", "func"} ->
              << 2, TypeRank(g[v].typ), g[v].ptr >>
         [] g[v].kind = "iface" ->
              IF g[v].elem = 0 THEN << 3 >> ELSE Fingerprint(g[v].elem, fuel - 1)
         [] g[v].kind = "struct" ->
              << 4, TypeRank(g[v].typ), Len(g[v].kids) >>
              \o Flatten([i \in 1..Len(g[v].kids) |-> Fingerprint(g[v].kids[i], fuel - 1)])
         [] g[v].kind = "slice" ->
              IF g[v].ptr = 0 THEN << 5, TypeRank(g[v].typ), 0 >>
              ELSE << 5, TypeRank(g[v].typ), 1, Len(g[v].kids) >>
                   \o Flatten([i \in 1..Len(g[v].kids) |-> Fingerprint(g[v].kids[i], fuel - 1)])
         [] g[v].kind = "array" ->
              << 7, TypeRank(g[v].typ), Len(g[v].kids) >>
              \o Flatten([i \in 1..Len(g[v].kids) |-> Fingerprint(g[v].kids[i], fuel - 1)])
         [] g[v].kind = "map" ->
              IF g[v].ptr = 0 THEN << 6, TypeRank(g[v].typ), 0 >>
              ELSE << 6, TypeRank(g[v].typ), 1, Len(g[v].kids) >>
                   \o Flatten([i \in 1..Len(g[v].kids) |->
                                 Fingerprint(g[v].keys[i], fuel - 1)
                                 \o Fingerprint(g[v].kids[i], fuel - 1)])

\* fmt has no cycle detection: a value that contains itself by value (through
\* interfaces, slices or maps, not through a pointer) is walked without end.
\* A by-value path longer than the number of nodes repeats a node.
RECURSIVE FmtRecursesForever(_, _)
FmtRecursesForever(v, fuel) ==
  IF fuel = 0 THEN TRUE
  ELSE IF v = Unexported THEN FALSE
  ELSE CASE g[v].kind \in {"prim", "ptr", "chan", "func"} -> FALSE
         [] g[v].kind = "iface" ->
              g[v].elem # 0 /\ FmtRecursesForever(g[v].elem, fuel - 1)
         [] OTHER ->
              \/ \E i \in 1..Len(g[v].kids) : FmtRecursesForever(g[v].kids[i], fuel - 1)
              \/ \E i \in 1..Len(g[v].keys) : FmtRecursesForever(g[v].keys[i], fuel - 1)

FmtFuel == Len(g) + 1

\* the keys unifyAllCopies fingerprints (zero-sized structs are skipped)
Fingerprinted(st) ==
  { k \in DOMAIN st : ~(st[k].valueKind = "struct" /\ IsZeroSizedType(k.typ)) }

\* valueToKeys, as the set of its value lists
ValueToKeys(st) ==
  { { k2 \in Fingerprinted(st) :
        Fingerprint(st[k2].value, FmtFuel) = Fingerprint(st[k].value, FmtFuel) } :
    k \in Fingerprinted(st) }

\* the orders in which a map iteration can have appended the keys of a group
KeyOrders(S) ==
  { p \in [1..Cardinality(S) -> S] :
      \A i, j \in 1..Cardinality(S) : i # j => p[i] # p[j] }

RECURSIVE SortByAddr(_)
SortByAddr(ks) ==
  IF ks = <<>> THEN <<>>
  ELSE LET m == CHOOSE i \in 1..Len(ks) :
                  \A j \in 1..Len(ks) :
                    ks[i].addr < ks[j].addr \/ (ks[i].addr = ks[j].addr /\ i <= j)
       IN  << ks[m] >>
           \o SortByAddr([i \in 1..(Len(ks) - 1) |-> IF i < m THEN ks[i] ELSE ks[i + 1]])

RECURSIVE UnionPairs(_, _, _, _)
UnionPairs(cr, as, bs, i) ==
  IF i > Len(as) THEN cr
  ELSE UnionPairs(union(cr, as[i], bs[i]), as, bs, i + 1)

RECURSIVE UnionAllInto(_, _, _, _)
UnionAllInto(cr, ks, target, i) ==
  IF i > Len(ks) THEN cr
  ELSE UnionAllInto(union(cr, ks[i], target), ks, target, i + 1)

\* variant: composite groups without a copy are left alone
UnifyKeys_NoSourceMerge(cr, st, keys) ==
  LET IsSource(k) == k \in DOMAIN st /\ st[k].ptr > 0
      IsCopy(k) == ~IsSource(k)
      sources == SelectSeq(keys, IsSource)
      copies == SelectSeq(keys, IsCopy)
      isPrimitiveGroup == keys[1] \in DOMAIN st /\ st[keys[1]].isPrimitive
      cr1 == IF isPrimitiveGroup
               THEN IF Len(sources) > 1 /\ Len(sources) = Len(copies)
                      THEN UnionPairs(cr, SortByAddr(sources), SortByAddr(copies), 1)
                      ELSE cr
               ELSE cr
  IN  IF Len(sources) = 1 /\ Len(copies) > 0
        THEN UnionAllInto(cr1, copies, sources[1], 1)
        ELSE cr1

\* variant: sources and copies are paired in the order of the value list
UnifyKeys_Unsorted(cr, st, keys) ==
  LET IsSource(k) == k \in DOMAIN st /\ st[k].ptr > 0
      IsCopy(k) == ~IsSource(k)
      sources == SelectSeq(keys, IsSource)
      copies == SelectSeq(keys, IsCopy)
      isPrimitiveGroup == keys[1] \in DOMAIN st /\ st[keys[1]].isPrimitive
      cr1 == IF isPrimitiveGroup
               THEN IF Len(sources) > 1 /\ Len(sources) = Len(copies)
                      THEN UnionPairs(cr, sources, copies, 1)
                      ELSE cr
               ELSE IF Len(sources) > 1 /\ Len(copies) = 0
                      THEN UnionAllInto(cr, sources, sources[1], 2)
                      ELSE cr
  IN  IF Len(sources) = 1 /\ Len(copies) > 0
        THEN UnionAllInto(cr1, copies, sources[1], 1)
        ELSE cr1

\* variant: the general rule unions only the first copy into the source
UnifyKeys_FirstCopyOnly(cr, st, keys) ==
  LET IsSource(k) == k \in DOMAIN st /\ st[k].ptr > 0
      IsCopy(k) == ~IsSource(k)
      sources == SelectSeq(keys, IsSource)
      copies == SelectSeq(keys, IsCopy)
      isPrimitiveGroup == keys[1] \in DOMAIN st /\ st[keys[1]].isPrimitive
      cr1 == IF isPrimitiveGroup
               THEN IF Len(sources) > 1 /\ Len(sources) = Len(copies)
                      THEN UnionPairs(cr, SortByAddr(sources), SortByAddr(copies), 1)
                      ELSE cr
               ELSE IF Len(sources) > 1 /\ Len(copies) = 0
                      THEN UnionAllInto(cr, sources, sources[1], 2)
                      ELSE cr
  IN  IF Len(sources) = 1 /\ Len(copies) > 0
        THEN union(cr1, copies[1], sources[1])
        ELSE cr1

\* variant: the general rule merges the copies into the first source of a
\* group with any number of sources
UnifyKeys_AnySource(cr, st, keys) ==
  LET IsSource(k) == k \in DOMAIN st /\ st[k].ptr > 0
      IsCopy(k) == ~IsSource(k)
      sources == SelectSeq(keys, IsSource)
      copies == SelectSeq(keys, IsCopy)
      isPrimitiveGroup == keys[1] \in DOMAIN st /\ st[keys[1]].isPrimitive
      cr1 == IF isPrimitiveGroup
               THEN IF Len(sources) > 1 /\ Len(sources) = Len(copies)
                      THEN UnionPairs(cr, SortByAddr(sources), SortByAddr(copies), 1)
                      ELSE cr
               ELSE IF Len(sources) > 1 /\ Len(copies) = 0
                      THEN UnionAllInto(cr, sources, sources[1], 2)
                      ELSE cr
  IN  IF Len(sources) >= 1 /\ Len(copies) > 0
        THEN UnionAllInto(cr1, copies, sources[1], 1)
        ELSE cr1

\* the body of the second loop of unifyAllCopies for one value list
UnifyKeys(cr, st, keys) ==
  LET IsSource(k) == k \in DOMAIN st /\ st[k].ptr > 0
      IsCopy(k) == ~IsSource(k)
      sources == SelectSeq(keys, IsSource)
      copies == SelectSeq(keys, IsCopy)
      isPrimitiveGroup == keys[1] \in DOMAIN st /\ st[keys[1]].isPrimitive
      cr1 == IF isPrimitiveGroup
               THEN IF Len(sources) > 1 /\ Len(sources) = Len(copies)
                      THEN UnionPairs(cr, SortByAddr(sources), SortByAddr(copies), 1)
                      ELSE cr
               ELSE IF Len(sources) > 1 /\ Len(copies) = 0
                      THEN UnionAllInto(cr, sources, sources[1], 2)
                      ELSE cr
  IN  IF Len(sources) = 1 /\ Len(copies) > 0
        THEN UnionAllInto(cr1, copies, sources[1], 1)
        ELSE cr1

\* first loop of unifyAllCopies: every tracked value is formatted with %#v.
\* On a value that contains itself by value the formatting never returns
\* (the goroutine stack overflows and the process dies).
UnifyGroupKeys ==
  /\ pc = "unify"
  /\ IF \E k \in Fingerprinted(referenceStats) :
          FmtRecursesForever(referenceStats[k].value, FmtFuel)
       THEN /\ pc' = "crashed"
            /\ groups' = {}
       ELSE /\ pc' = "unify2"
            /\ groups' = { S \in ValueToKeys(referenceStats) : Cardinality(S) >= 2 }
  /\ UNCHANGED << g, roots, ri, run, queue, traversed, referenceStats, referenceIDs,
                  canonicalRoots, primitiveInstances, definitionPoints, renderedIDs,
                  fakeAddrs, stack, out, visitLog, prevIDs, prevDefs >>
  /\ UNCHANGED << goroutines, visitedPointers >>

\* second loop of unifyAllCopies, one value list with at least two keys per
\* step; the lists come in the iteration order of a Go map, and so do the
\* keys inside a list
UnifyGroup ==
  /\ pc = "unify2"
  /\ groups # {}
  /\ \E S \in groups :
       \E keys \in KeyOrders(S) :
         /\ canonicalRoots' = UnifyKeys(canonicalRoots, referenceStats, keys)
         /\ groups' = groups \ {S}
  /\ UNCHANGED << g, roots, pc, ri, run, queue, traversed, referenceStats,
                  referenceIDs, primitiveInstances, definitionPoints, renderedIDs,
                  fakeAddrs, stack, out, visitLog, prevIDs, prevDefs >>
  /\ UNCHANGED << goroutines, visitedPointers >>

(***************************************************************************)
(* Pass 3: getMergedStats / assignReferenceIDs.                            *)
(***************************************************************************)
\* findRoot applied to every key of S (the result does not depend on the
\* order: afterwards every key of S points at its root)
RECURSIVE FindAll(_, _)
FindAll(cr, S) ==
  IF S = {} THEN cr
  ELSE LET k == CHOOSE x \in S : TRUE
       IN  FindAll(findRoot(cr, k), S \ {k})

RECURSIVE SumTotal(_, _)
SumTotal(st, S) ==
  IF S = {} THEN 0
  ELSE LET k == CHOOSE x \in S : TRUE
       IN  st[k].total + SumTotal(st, S \ {k})

RECURSIVE SumPtr(_, _)
SumPtr(st, S) ==
  IF S = {} THEN 0
  ELSE LET k == CHOOSE x \in S : TRUE
       IN  st[k].ptr + SumPtr(st, S \ {k})

\* variant: a root keeps its own counts, those of the other members of its
\* class are not added
getMergedStats_RootOnly(cr, st) ==
  LET rootsOf == { RootOf(cr, k) : k \in DOMAIN st }
  IN  [r \in rootsOf |->
         [totalReferencesCount |-> st[r].total,
          pointerReferencesCount |-> st[r].ptr]]

\* getMergedStats: per root the summed counts of the keys it represents
getMergedStats(cr, st) ==
  LET rootsOf == { RootOf(cr, k) : k \in DOMAIN st }
      members(r) == { k \in DOMAIN st : RootOf(cr, k) = r }
  IN  [r \in rootsOf |->
         [totalReferencesCount |-> SumTotal(st, members(r)),
          pointerReferencesCount |-> SumPtr(st, members(r))]]

\* variant: one pointer reference is already enough for an ID
NeedsID_GE(stats) ==
  \/ stats.pointerReferencesCount >= 1
  \/ (stats.pointerReferencesCount > 0
      /\ stats.totalReferencesCount > stats.pointerReferencesCount)

\* the condition under which assignReferenceIDs gives a root an ID
NeedsID(stats) ==
  \/ stats.pointerReferencesCount > 1
  \/ (stats.pointerReferencesCount > 0
      /\ stats.totalReferencesCount > stats.pointerReferencesCount)

\* the comparison of the sort in assignReferenceIDs
KeyLess(a, b) ==
  IF a.addr # b.addr THEN a.addr < b.addr
  ELSE TypeRank(a.typ) < TypeRank(b.typ)

RECURSIVE SortKeys(_)
SortKeys(S) ==
  IF S = {} THEN <<>>
  ELSE LET m == CHOOSE x \in S : \A y \in S \ {x} : KeyLess(x, y)
       IN  << m >> \o SortKeys(S \ {m})

\* "&" + strconv.Itoa(n)
Label(n) == [prefix |-> "&", num |-> n]

\* the loop over sortedRoots: the IDs after roots i.. have been handled
RECURSIVE AssignLoop_CountAll(_, _, _, _, _)
AssignLoop_CountAll(sorted, merged, i, idCounter, ids) ==
  IF i > Len(sorted) THEN ids
  ELSE IF NeedsID(merged[sorted[i]]) /\ sorted[i] \notin DOMAIN ids
    THEN AssignLoop_CountAll(sorted, merged, i + 1, idCounter + 1,
                             ids @@ (sorted[i] :> Label(idCounter)))
    ELSE AssignLoop_CountAll(sorted, merged, i + 1, idCounter + 1, ids)

RECURSIVE AssignLoop(_, _, _, _, _)
AssignLoop(sorted, merged, i, idCounter, ids) ==
  IF i > Len(sorted) THEN ids
  ELSE IF NeedsID(merged[sorted[i]]) /\ sorted[i] \notin DOMAIN ids
    THEN AssignLoop(sorted, merged, i + 1, idCounter + 1,
                    ids @@ (sorted[i] :> Label(idCounter)))
    ELSE AssignLoop(sorted, merged, i + 1, idCounter, ids)

\* assignReferenceIDs, then the queue of the first determineDefinitionPoints
AssignReferenceIDs ==
  /\ pc = "unify2"
  /\ groups = {}
  /\ LET cr == FindAll(canonicalRoots, DOMAIN referenceStats)
         merged == getMergedStats(cr, referenceStats)
         sortedRoots == SortKeys(DOMAIN merged)
     IN  /\ canonicalRoots' = cr
         /\ referenceIDs' = AssignLoop(sortedRoots, merged, 1, 1, referenceIDs)
  /\ pc' = "defpoints"
  /\ ri' = 1
  /\ queue' = << [v |-> roots[1], level |-> 0] >>
  /\ traversed' = {}
  /\ UNCHANGED << g, roots, run, referenceStats, primitiveInstances,
                  definitionPoints, renderedIDs, fakeAddrs, groups, stack, out,
                  visitLog, prevIDs, prevDefs >>
  /\ UNCHANGED << goroutines, visitedPointers >>

(***************************************************************************)
(* Pass 4: determineDefinitionPoints.                                      *)
(***************************************************************************)
\* the priority rules: is the current occurrence better than the incumbent
IsBetter_NoIndirection(exists, incumbent, currentIsPointerRef, currentIndirection, level) ==
  IF ~exists THEN TRUE
  ELSE IF incumbent.isPointerRef /\ ~currentIsPointerRef THEN TRUE
  ELSE IF ~incumbent.isPointerRef /\ currentIsPointerRef THEN FALSE
  ELSE level < incumbent.level

IsBetter(exists, incumbent, currentIsPointerRef, currentIndirection, level) ==
  IF ~exists THEN TRUE
  ELSE IF incumbent.isPointerRef /\ ~currentIsPointerRef THEN TRUE
  ELSE IF ~incumbent.isPointerRef /\ currentIsPointerRef THEN FALSE
  ELSE IF currentIsPointerRef
    THEN IF currentIndirection < incumbent.indirectionLevel THEN TRUE
         ELSE IF currentIndirection = incumbent.indirectionLevel
           THEN level < incumbent.level
           ELSE FALSE
    ELSE level < incumbent.level

NoDef ==
  [instanceKey |-> NoKey, isPointerRef |-> FALSE, indirectionLevel |-> 0,
   level |-> 0, valueType |-> ""]

\* the map key under which a definition point is stored
DefSlot_RawKey(rawKey, rootKey) == rawKey

DefSlot(rawKey, rootKey) == rootKey

\* one iteration of the loop of determineDefinitionPoints; the queue of the
\* next root, and after the last root the first renderValue call
DefPointStep ==
  /\ pc = "defpoints"
  /\ queue # <<>>
  /\ LET item == Head(queue)
         v == item.v
         rk == IF v = 0 THEN [ok |-> FALSE, key |-> NoKey, fa |-> fakeAddrs]
                        ELSE getRawKey(fakeAddrs, v)
         cr == IF rk.ok THEN findRoot(canonicalRoots, rk.key) ELSE canonicalRoots
         rootKey == RootOf(canonicalRoots, rk.key)
         hasID == rk.ok /\ rootKey \in DOMAIN referenceIDs
         slot == DefSlot(rk.key, rootKey)
         exists == slot \in DOMAIN definitionPoints
         incumbent == IF exists THEN definitionPoints[slot] ELSE NoDef
         currentIsPointerRef == isPointerRef(v)
         isBetter == IsBetter(exists, incumbent, currentIsPointerRef,
                              getIndirectionLevel(v), item.level)
         ik == getInstanceKey(rk.fa, v)
         fa == IF hasID /\ isBetter THEN ik.fa ELSE rk.fa
         exp == rk.ok /\ Expands(fa, traversed, v)
     IN  \E ord \in (IF exp THEN ChildOrders(v) ELSE { <<>> }) :
           LET q == IF exp THEN Tail(queue) \o Children(v, item.level, ord)
                           ELSE Tail(queue)
               trav == IF exp THEN traversed \cup {getRawKey(fa, v).key}
                              ELSE traversed
           IN  /\ canonicalRoots' = cr
               /\ fakeAddrs' = fa
               /\ definitionPoints' =
                    IF hasID /\ isBetter /\ ik.ok
                      THEN (slot :>
                              [instanceKey |-> ik.key,
                               isPointerRef |-> currentIsPointerRef,
                               indirectionLevel |-> getIndirectionLevel(v),
                               level |-> item.level,
                               valueType |-> g[deref(v)].typ]) @@ definitionPoints
                      ELSE definitionPoints
               /\ visitLog' =
                    IF hasID
                      THEN Append(visitLog,
                                  [v |-> v, level |-> item.level, root |-> rootKey,
                                   isPointerRef |-> currentIsPointerRef,
                                   indirectionLevel |-> getIndirectionLevel(v),
                                   instanceKey |-> ik.key, instOK |-> ik.ok])
                      ELSE visitLog
               /\ IF q # <<>>
                    THEN /\ queue' = q
                         /\ traversed' = trav
                         /\ UNCHANGED << pc, ri, stack >>
                    ELSE IF ri < Len(roots)
                      THEN /\ queue' = << [v |-> roots[ri + 1], level |-> 0] >>
                           /\ traversed' = {}
                           /\ ri' = ri + 1
                           /\ UNCHANGED << pc, stack >>
                      ELSE /\ queue' = <<>>
                           /\ traversed' = {}
                           /\ ri' = 1
                           /\ pc' = "render"
                           /\ stack' = << [v |-> roots[1], level |-> 0, skip |-> FALSE,
                                           field |-> FALSE, anc |-> {}] >>
  /\ UNCHANGED << g, roots, run, referenceStats, referenceIDs, primitiveInstances,
                  renderedIDs, groups, out, prevIDs, prevDefs >>
  /\ UNCHANGED << goroutines, visitedPointers >>

(***************************************************************************)
(* Rendering (renderAllValues, renderValue, renderStruct, formatArrayOrSlice *)
(* and formatMap), with TrackReferences on.  The recursion is an explicit  *)
(* stack of pending renderValue calls; a frame carries the arguments of the *)
(* call, whether the call is made by the field loop of renderStruct, and   *)
(* the composites whose expansion is in progress around it.                *)
(***************************************************************************)
\* the identity of the composite t in memory; a by-value copy has none
ObjId(t) ==
  CASE t = 0 -> NoKey
    [] t # 0 /\ g[t].kind \in {"slice", "map"} /\ g[t].ptr # 0 -> Key(g[t].ptr, g[t].typ)
    [] t # 0 /\ g[t].kind = "struct" /\ g[t].canAddr /\ ~g[t].zst -> Key(g[t].addr, g[t].typ)
    [] OTHER -> NoKey

\* the text of the string values of the inputs
StringText == << "a", "b", "c" >>

\* len(strconv.FormatInt(n, 10))
RECURSIVE DecLen(_)
DecLen(n) ==
  IF n < 0 THEN 1 + DecLen(0 - n)
  ELSE IF n < 10 THEN 1
  ELSE 1 + DecLen(n \div 10)

\* the separators ", " between n items
Commas(n) == IF n > 1 THEN 2 * (n - 1) ELSE 0

\* the length of the "|n| " or "|L:n C:c| " hint of a slice or array
ListMetaLen(v) ==
  IF ~ShowMetaInformation THEN 0
  ELSE IF g[v].kind = "slice" /\ Len(g[v].kids) # g[v].cap
    THEN 8 + DecLen(Len(g[v].kids)) + DecLen(g[v].cap)
  ELSE 3 + DecLen(Len(g[v].kids))

TypeLen(v) == IF ShowTypes THEN Len(g[v].typ) + 1 ELSE 0

RECURSIVE estimatedInlineLength(_)
RECURSIVE SumLen(_, _)

\* what element, entry or field number i of v adds to the length
ItemLen(v, i) ==
  CASE g[v].kind \in {"slice", "array"} ->
         1 + 4 + estimatedInlineLength(g[v].kids[i])
    [] g[v].kind = "map" ->
         estimatedInlineLength(g[v].keys[i]) + 4
           + estimatedInlineLength(g[v].kids[i]) + TypeLen(g[v].kids[i])
    [] g[v].kind = "struct" ->
         2 + Len(g[v].names[i]) + 4
           + estimatedInlineLength(g[v].kids[i]) + TypeLen(g[v].kids[i])

\* the loop over the items of v, from item number i on
SumLen(v, i) ==
  IF i > Len(g[v].kids) THEN 0 ELSE ItemLen(v, i) + SumLen(v, i + 1)

estimatedInlineLength(v) ==
  CASE v = 0 -> 10
    [] v # 0 /\ g[v].kind = "prim" /\ g[v].typ = "string" ->
         LET runeCount == Len(StringText[g[v].val])
         IN  runeCount + 2 + (IF ShowMetaInformation THEN 5 + DecLen(runeCount) ELSE 0)
    [] v # 0 /\ g[v].kind = "prim" /\ g[v].typ = "int" -> DecLen(g[v].val)
    [] v # 0 /\ g[v].kind = "prim" /\ g[v].typ = "float64" ->
         CASE g[v].fl = "nan" -> 3
           [] g[v].fl = "negzero" -> 2
           [] OTHER -> DecLen(g[v].val)
    [] v # 0 /\ g[v].kind \in {"slice", "array"} ->
         2 + ListMetaLen(v) + Commas(Len(g[v].kids)) + SumLen(v, 1)
    [] v # 0 /\ g[v].kind = "map" ->
         2 + (IF ShowMetaInformation THEN 3 + DecLen(Len(g[v].kids)) ELSE 0)
           + Commas(Len(g[v].kids)) + SumLen(v, 1)
    [] v # 0 /\ g[v].kind = "struct" ->
         2 + Commas(Len(g[v].kids)) + SumLen(v, 1)
    [] OTHER -> 10

\* isSimpleCollection, isSimpleMap and isSimpleStruct
AllSimple(v) ==
  IF g[v].kind = "map"
    THEN \A i \in 1..Len(g[v].kids) :
            isSimpleValue(g[v].keys[i]) /\ isSimpleValue(g[v].kids[i])
    ELSE \A i \in 1..Len(g[v].kids) : isSimpleValue(g[v].kids[i])

shouldRenderInline(v) ==
  CASE g[v].kind \in {"slice", "array", "map"} ->
         /\ AllSimple(v)
         /\ Len(g[v].kids) <= 10
         /\ estimatedInlineLength(v) <= MaxInlineLength
    [] g[v].kind = "struct" ->
         /\ ~(EmbedTypeMethods /\ g[v].methods > 0)
         /\ AllSimple(v)
         /\ Len(g[v].kids) <= 10
         /\ estimatedInlineLength(v) <= MaxInlineLength
    [] OTHER -> TRUE

Min(a, b) == IF a < b THEN a ELSE b

\* the renderValue calls a composite makes for its children, in order
ChildFrames(v, level, anc, ord) ==
  LET lvl == IF shouldRenderInline(v) THEN level ELSE level + 1
      id == ObjId(v)
      a == IF id = NoKey THEN anc ELSE anc \cup {id}
  IN  CASE g[v].kind \in {"ptr", "iface"} ->
             << [v |-> g[v].elem, level |-> level, skip |-> TRUE,
                 field |-> FALSE, anc |-> anc] >>
        [] g[v].kind = "struct" ->
             [i \in 1..Len(g[v].kids) |->
                [v |-> g[v].kids[i], level |-> lvl, skip |-> FALSE,
                 field |-> TRUE, anc |-> a]]
        [] g[v].kind \in {"slice", "array"} ->
             [i \in 1..Min(Len(g[v].kids), MaxItems) |->
                [v |-> g[v].kids[i], level |-> lvl, skip |-> FALSE,
                 field |-> FALSE, anc |-> a]]
        [] g[v].kind = "map" ->
             [i \in 1..Min(Len(ord), MaxItems) |->
                [v |-> g[v].kids[ord[i]], level |-> lvl, skip |-> FALSE,
                 field |-> FALSE, anc |-> a]]
        [] OTHER -> <<>>

\* the reference check without its back-reference branch for occurrences
\* that are not the definition point
RefAction_ExpandAliases(hasID, isTheChosenDefinition, rendered) ==
  IF ~hasID THEN "plain"
  ELSE IF isTheChosenDefinition
         THEN IF rendered THEN "backref" ELSE "def"
         ELSE "plain"

\* the reference check without the test of d.renderedIDs
RefAction_IgnoreRendered(hasID, isTheChosenDefinition, rendered) ==
  IF ~hasID THEN "plain"
  ELSE IF isTheChosenDefinition THEN "def" ELSE "backref"

\* the branch of the reference check of renderValue
RefAction(hasID, isTheChosenDefinition, rendered) ==
  IF ~hasID THEN "plain"
  ELSE IF isTheChosenDefinition
         THEN IF rendered THEN "backref" ELSE "def"
         ELSE "backref"

\* the check renderStruct makes on a struct-kind field before it renders
\* the field: [hit, cr, root] = whether it printed a back-reference instead,
\* the union-find after its findRoot, and the root it found
FieldCheckRooted(f, rootKey, cr) ==
  [hit |-> /\ rootKey \in DOMAIN referenceIDs
           /\ rootKey \in DOMAIN definitionPoints
           /\ definitionPoints[rootKey].isPointerRef
           /\ g[deref(f.v)].typ = definitionPoints[rootKey].valueType,
   cr |-> cr, root |-> rootKey]

FieldCheckKeyed(f, rk) ==
  IF ~rk.ok THEN [hit |-> FALSE, cr |-> canonicalRoots, root |-> NoKey]
  ELSE FieldCheckRooted(f, RootOf(canonicalRoots, rk.key),
                        findRoot(canonicalRoots, rk.key))

FieldCheck(f) ==
  IF f.field /\ f.v # 0 /\ g[f.v].kind = "struct"
    THEN FieldCheckKeyed(f, getRawKey(fakeAddrs, f.v))
    ELSE [hit |-> FALSE, cr |-> canonicalRoots, root |-> NoKey]

\* the returns of renderValue that precede its reference check
EarlyExit(f, hit) ==
  CASE hit -> "fieldref"
    [] ~hit /\ f.level > MaxDepth -> "maxdepth"
    [] ~hit /\ f.level <= MaxDepth /\ f.v = 0 -> "invalid"
    [] ~hit /\ f.level <= MaxDepth /\ f.v # 0 /\ isNil(f.v) -> "nil"
    [] OTHER -> "none"

\* the reference check of renderValue: [act, cr, fa, root] = what the call
\* does, the union-find and fake addresses after it, and the root it found
RefCheckInst(cr, rootKey, ik) ==
  [act |-> RefAction(TRUE,
                     /\ rootKey \in DOMAIN definitionPoints
                     /\ ik.ok
                     /\ definitionPoints[rootKey].instanceKey = ik.key,
                     rootKey \in DOMAIN renderedIDs),
   cr |-> cr, fa |-> ik.fa, root |-> rootKey]

RefCheckRooted(f, cr, fa, rootKey) ==
  IF rootKey \notin DOMAIN referenceIDs
    THEN [act |-> RefAction(FALSE, FALSE, FALSE), cr |-> cr, fa |-> fa, root |-> rootKey]
    ELSE RefCheckInst(cr, rootKey, getInstanceKey(fa, f.v))

RefCheckKeyed(f, cr, rk) ==
  IF ~rk.ok
    THEN [act |-> RefAction(FALSE, FALSE, FALSE), cr |-> cr, fa |-> rk.fa, root |-> NoKey]
    ELSE RefCheckRooted(f, findRoot(cr, rk.key), rk.fa, RootOf(cr, rk.key))

RefCheck(f, cr) == RefCheckKeyed(f, cr, getRawKey(fakeAddrs, f.v))

\* what one renderValue call (with the field check of renderStruct before
\* it) does up to the dispatch on the kind
DecideEarly(f, fc, early) ==
  IF early # "none"
    THEN [act |-> early, cr |-> fc.cr, fa |-> fakeAddrs, root |-> fc.root]
    ELSE IF f.skip
      THEN [act |-> "cont", cr |-> fc.cr, fa |-> fakeAddrs, root |-> NoKey]
      ELSE RefCheck(f, fc.cr)

DecideAfterField(f, fc) == DecideEarly(f, fc, EarlyExit(f, fc.hit))

Decide(f) == DecideAfterField(f, FieldCheck(f))

\* the call goes on to render the value itself
Expanding(act) == act \in {"plain", "def", "cont"}

\* what the call printed, with the occurrence's root and instance key
\* recorded whether or not the call looked them up
LogKeyed(f, act, pushed, rk, ik) ==
  [v |-> f.v, level |-> f.level, act |-> act, skip |-> f.skip,
   root |-> IF rk.ok THEN RootOf(canonicalRoots, rk.key) ELSE NoKey,
   hasID |-> rk.ok /\ RootOf(canonicalRoots, rk.key) \in DOMAIN referenceIDs,
   inst |-> IF ik.ok THEN ik.key ELSE NoKey,
   pushed |-> pushed,
   closing |-> ~f.skip /\ ObjId(deref(f.v)) # NoKey /\ ObjId(deref(f.v)) \in f.anc]

LogEntry(f, act, pushed) ==
  IF f.v = 0
    THEN LogKeyed(f, act, pushed, [ok |-> FALSE, key |-> NoKey],
                  [ok |-> FALSE, key |-> NoKey])
    ELSE LogKeyed(f, act, pushed, getRawKey(fakeAddrs, f.v),
                  getInstanceKey(fakeAddrs, f.v))

\* the state after the call: st is the stack of pending calls it leaves
RenderEffect(f, d, st) ==
  /\ canonicalRoots' = d.cr
  /\ fakeAddrs' = d.fa
  /\ renderedIDs' = IF d.act = "def" THEN (d.root :> TRUE) @@ renderedIDs
                                     ELSE renderedIDs
  /\ out' = Append(out, LogEntry(f, d.act, Len(st) - Len(Tail(stack))))
  /\ IF st # <<>>
       THEN stack' = st /\ UNCHANGED << pc, ri >>
       ELSE IF ri < Len(roots)
         THEN /\ stack' = << [v |-> roots[ri + 1], level |-> 0,
                              skip |-> FALSE, field |-> FALSE, anc |-> {}] >>
              /\ ri' = ri + 1
              /\ UNCHANGED pc
         ELSE /\ stack' = <<>>
              /\ pc' = "done"
              /\ UNCHANGED ri

RenderCall(f, d) ==
  IF Expanding(d.act)
    THEN \E ord \in (IF g[f.v].kind = "map" THEN MapOrders(f.v) ELSE { <<>> }) :
           RenderEffect(f, d, ChildFrames(f.v, f.level, f.anc, ord) \o Tail(stack))
    ELSE RenderEffect(f, d, Tail(stack))

\* one renderValue call (preceded, for a struct field, by the check of
\* renderStruct): the top frame is replaced by the calls it makes; when the
\* stack empties, renderAllValues goes on to the next root
RenderStep ==
  /\ pc = "render"
  /\ stack # <<>>
  /\ RenderCall(Head(stack), Decide(Head(stack)))
  /\ UNCHANGED << g, roots, run, queue, traversed, referenceStats, referenceIDs,
                  primitiveInstances, definitionPoints, groups, visitLog,
                  prevIDs, prevDefs >>
  /\ UNCHANGED << goroutines, visitedPointers >>

Next == BeginCall \/ PreScanStep \/ UnifyGroupKeys \/ UnifyGroup \/ AssignReferenceIDs
        \/ DefPointStep \/ RenderStep

Spec == Init /\ [][Next]_vars

(***************************************************************************)
(* Two goroutines.  The program makes the call of each of them MaxRuns - 1  *)
(* times one after the other (which gives what the call produces alone),   *)
(* then starts the two goroutines, and each makes its call once more.      *)
(* Either both call methods of one Dumper (shared), or each call has a     *)
(* Dumper of its own, as the package-level functions build one.  No lock   *)
(* guards the fields of a Dumper: resetState is seven separate             *)
(* assignments, and the scheduler may switch goroutines before each of     *)
(* them and before every step of a pass.  With a Dumper each (SpecOwn) no  *)
(* step of one call touches what the other call works on, and a step is    *)
(* one loop iteration of a pass (assignReferenceIDs: the part before its   *)
(* loop, then one iteration per step).  With one Dumper for both           *)
(* (SpecConc) a step is one access to the Dumper, see "The passes followed *)
(* access by access" below; of the switches that take a goroutine off a    *)
(* call in progress, up to MaxPreemptions are followed in one behaviour.   *)
(* What two goroutines do to one map at the same time is a data race, see  *)
(* RaceFault.                                                              *)
(***************************************************************************)
\* the values the two goroutines dump
ConcInputs ==
  { [g |-> G_PtrToPtrTwice, roots |-> <<1>>, other |-> <<6>>],
    [g |-> G_EmbeddedField, roots |-> <<1, 4>>, other |-> <<5>>] }

\* the tracking fields of a Dumper after NewDumper
NewDumper ==
  [referenceStats |-> EmptyMap, referenceIDs |-> EmptyMap,
   canonicalRoots |-> EmptyMap, primitiveInstances |-> EmptyMap,
   definitionPoints |-> EmptyMap, renderedIDs |-> EmptyMap,
   fakeAddrs |-> EmptyMap]

\* a goroutine that has not made a call yet
IdleGoroutine(rs) ==
  [roots |-> rs, pc |-> "idle", ri |-> 0, run |-> 0, queue |-> <<>>,
   traversed |-> {}, groups |-> {}, stack |-> <<>>, out |-> <<>>,
   visitLog |-> <<>>, prevIDs |-> EmptyMap, prevDefs |-> EmptyMap,
   frame |-> NoFrame, dumper |-> NewDumper]

NoResult == [set |-> FALSE, ids |-> EmptyMap, defs |-> EmptyMap, out |-> <<>>]

InitConc ==
  /\ \E in \in ConcInputs :
       /\ g = in.g
       /\ roots = in.roots
       /\ parked = IdleGoroutine(in.other)
  /\ shared \in BOOLEAN
  /\ cur = 1
  /\ solo = [t \in 1..2 |-> NoResult]
  /\ frame = NoFrame
  /\ preemptions = 0
  /\ visitedPointers = {}
  /\ pc = "idle"
  /\ ri = 0
  /\ run = 0
  /\ queue = <<>>
  /\ traversed = {}
  /\ referenceStats = EmptyMap
  /\ referenceIDs = EmptyMap
  /\ canonicalRoots = EmptyMap
  /\ primitiveInstances = EmptyMap
  /\ definitionPoints = EmptyMap
  /\ renderedIDs = EmptyMap
  /\ fakeAddrs = EmptyMap
  /\ groups = {}
  /\ stack = <<>>
  /\ out = <<>>
  /\ visitLog = <<>>
  /\ prevIDs = EmptyMap
  /\ prevDefs = EmptyMap

\* the Dumper of the running goroutine
RunningDumper ==
  [referenceStats |-> referenceStats, referenceIDs |-> referenceIDs,
   canonicalRoots |-> canonicalRoots, primitiveInstances |-> primitiveInstances,
   definitionPoints |-> definitionPoints, renderedIDs |-> renderedIDs,
   fakeAddrs |-> fakeAddrs]

\* the running goroutine as it is parked
RunningGoroutine ==
  [roots |-> roots, pc |-> pc, ri |-> ri, run |-> run, queue |-> queue,
   traversed |-> traversed, groups |-> groups, stack |-> stack, out |-> out,
   visitLog |-> visitLog, prevIDs |-> prevIDs, prevDefs |-> prevDefs,
   frame |-> frame, dumper |-> IF shared THEN NewDumper ELSE RunningDumper]

\* the sequential calls of the goroutine gr have all returned
AloneCallsMade(gr) ==
  \/ gr.run = MaxRuns - 1 /\ gr.pc \in {"idle", "done"}
  \/ gr.run = MaxRuns

\* the running goroutine is in the concurrent part of the program
Concurrent == run = MaxRuns /\ AloneCallsMade(parked)

\* between two calls the program may go on with either goroutine's call;
\* once both goroutines run, the scheduler may switch before any step
MaySwitch == pc \in {"idle", "done"} \/ Concurrent

\* the switch takes a goroutine off a call on the shared Dumper that is in
\* progress
Preempts == shared /\ pc \notin {"idle", "done"}

\* what the call of the running goroutine produced alone is put on record
\* when the goroutine leaves it behind: the fields of the Dumper still hold
\* what that call left in them
SoloRecorded ==
  IF run = MaxRuns - 1 /\ pc = "done" /\ ~solo[cur].set
    THEN [solo EXCEPT ![cur] = [set |-> TRUE, ids |-> referenceIDs,
                                defs |-> definitionPoints, out |-> out]]
    ELSE solo

\* variant: the tracking maps are package-level variables, so also two calls
\* with a Dumper each work on the same maps
Switch_GlobalMaps ==
  /\ pc # "crashed"
  /\ MaySwitch
  /\ Preempts => preemptions < MaxPreemptions
  /\ cur' = 3 - cur
  /\ parked' = RunningGoroutine
  /\ roots' = parked.roots
  /\ pc' = parked.pc
  /\ ri' = parked.ri
  /\ run' = parked.run
  /\ queue' = parked.queue
  /\ traversed' = parked.traversed
  /\ groups' = parked.groups
  /\ stack' = parked.stack
  /\ out' = parked.out
  /\ visitLog' = parked.visitLog
  /\ prevIDs' = parked.prevIDs
  /\ prevDefs' = parked.prevDefs
  /\ frame' = parked.frame
  /\ preemptions' = IF Preempts THEN preemptions + 1 ELSE preemptions
  /\ UNCHANGED << referenceStats, referenceIDs, canonicalRoots,
                  primitiveInstances, definitionPoints, renderedIDs, fakeAddrs >>
  /\ solo' = SoloRecorded
  /\ UNCHANGED << g, shared, visitedPointers >>

\* the other goroutine gets to run.  The locals of renderAllValues and of the
\* passes it calls belong to the goroutine; d's fields are what the receiver
\* of the call holds: the same maps for both when the Dumper is shared.
Switch ==
  /\ pc # "crashed"
  /\ MaySwitch
  /\ Preempts => preemptions < MaxPreemptions
  /\ cur' = 3 - cur
  /\ parked' = RunningGoroutine
  /\ roots' = parked.roots
  /\ pc' = parked.pc
  /\ ri' = parked.ri
  /\ run' = parked.run
  /\ queue' = parked.queue
  /\ traversed' = parked.traversed
  /\ groups' = parked.groups
  /\ stack' = parked.stack
  /\ out' = parked.out
  /\ visitLog' = parked.visitLog
  /\ prevIDs' = parked.prevIDs
  /\ prevDefs' = parked.prevDefs
  /\ frame' = parked.frame
  /\ preemptions' = IF Preempts THEN preemptions + 1 ELSE preemptions
  /\ IF shared
       THEN UNCHANGED << referenceStats, referenceIDs, canonicalRoots,
                         primitiveInstances, definitionPoints, renderedIDs,
                         fakeAddrs >>
       ELSE /\ referenceStats' = parked.dumper.referenceStats
            /\ referenceIDs' = parked.dumper.referenceIDs
            /\ canonicalRoots' = parked.dumper.canonicalRoots
            /\ primitiveInstances' = parked.dumper.primitiveInstances
            /\ definitionPoints' = parked.dumper.definitionPoints
            /\ renderedIDs' = parked.dumper.renderedIDs
            /\ fakeAddrs' = parked.dumper.fakeAddrs
  /\ solo' = SoloRecorded
  /\ UNCHANGED << g, shared, visitedPointers >>

\* renderAllValues up to the call of resetState: makeAddressable for every
\* argument, the locals of the call.  The last call of a
\* goroutine starts when the sequential calls of both have returned; what
\* its previous call produced is put on record, unless a switch has done so.
EnterCall ==
  /\ pc \in {"idle", "done"}
  /\ run < MaxRuns
  /\ run = MaxRuns - 1 => AloneCallsMade(parked)
  /\ solo' = SoloRecorded
  /\ run' = run + 1
  /\ prevIDs' = referenceIDs
  /\ prevDefs' = definitionPoints
  /\ pc' = "reset"
  /\ ri' = 0
  /\ queue' = <<>>
  /\ traversed' = {}
  /\ groups' = {}
  /\ stack' = <<>>
  /\ out' = <<>>
  /\ visitLog' = <<>>
  /\ g' \in CallCopies
  /\ UNCHANGED << roots, referenceStats, referenceIDs, canonicalRoots,
                  primitiveInstances, definitionPoints, renderedIDs, fakeAddrs >>
  /\ UNCHANGED << shared, cur, parked, frame, preemptions, visitedPointers >>

\* the value of field number i of the Dumper (in the order resetState
\* assigns them) after the next assignment of a resetState that has made
\* done of its assignments
ResetField(i, done, old) == IF i = done + 1 THEN EmptyMap ELSE old

\* the other goroutine after the running one has replaced d.referenceStats:
\* a RefStats it holds a pointer to, and the map its range loop iterates,
\* are no longer what the Dumper has
ParkedAfterReset ==
  IF shared /\ ri = 0 /\ (parked.frame.att \/ parked.frame.live)
    THEN [parked EXCEPT !.frame =
            [parked.frame EXCEPT
               !.att = FALSE,
               !.st = IF parked.frame.att THEN referenceStats[parked.frame.key] ELSE @,
               !.live = FALSE,
               !.held = IF parked.frame.live THEN referenceStats ELSE @]]
    ELSE parked

\* one assignment of resetState (ri counts the assignments made); after the
\* last one the call goes on to its first preScanBFS
ResetStep ==
  /\ pc = "reset"
  /\ referenceStats' = ResetField(1, ri, referenceStats)
  /\ referenceIDs' = ResetField(2, ri, referenceIDs)
  /\ canonicalRoots' = ResetField(3, ri, canonicalRoots)
  /\ primitiveInstances' = ResetField(4, ri, primitiveInstances)
  /\ definitionPoints' = ResetField(5, ri, definitionPoints)
  /\ renderedIDs' = ResetField(6, ri, renderedIDs)
  /\ fakeAddrs' = ResetField(7, ri, fakeAddrs)
  /\ IF ri + 1 < 7
       THEN /\ ri' = ri + 1
            /\ UNCHANGED << pc, queue >>
       ELSE /\ ri' = 1
            /\ pc' = "prescan"
            /\ queue' = << [v |-> roots[1], level |-> 0] >>
  /\ UNCHANGED << g, roots, run, traversed, groups, stack, out, visitLog,
                  prevIDs, prevDefs >>
  /\ parked' = ParkedAfterReset
  /\ UNCHANGED << shared, cur, solo, frame, preemptions, visitedPointers >>

\* two calls inside the passes of one Dumper read and write its maps at the
\* same time; the Go runtime may detect that and end the process
\* ("fatal error: concurrent map writes")
RaceFault ==
  /\ shared
  /\ pc \notin {"idle", "reset", "done", "crashed"}
  /\ parked.pc \notin {"idle", "reset", "done"}
  /\ pc' = "crashed"
  /\ UNCHANGED << g, roots, ri, run, queue, traversed, referenceStats,
                  referenceIDs, canonicalRoots, primitiveInstances,
                  definitionPoints, renderedIDs, fakeAddrs, groups, stack, out,
                  visitLog, prevIDs, prevDefs, shared, cur, parked, solo,
                  frame, preemptions, visitedPointers >>

\* assignReferenceIDs up to its loop: getMergedStats and the sort.  The
\* sorted roots and the merged statistics are locals of the call (the queue
\* holds the roots for which the loop finds NeedsID, in the order of the
\* loop; ri is idCounter)
AssignBegin ==
  /\ pc = "unify2"
  /\ groups = {}
  /\ LET cr == FindAll(canonicalRoots, DOMAIN referenceStats)
         merged == getMergedStats(cr, referenceStats)
         sortedRoots == SortKeys(DOMAIN merged)
         need == SelectSeq(sortedRoots, LAMBDA k : NeedsID(merged[k]))
     IN  /\ canonicalRoots' = cr
         /\ IF need # <<>>
              THEN /\ pc' = "assign"
                   /\ queue' = need
              ELSE /\ pc' = "defpoints"
                   /\ queue' = << [v |-> roots[1], level |-> 0] >>
  /\ ri' = 1
  /\ traversed' = {}
  /\ UNCHANGED << g, roots, run, referenceStats, referenceIDs,
                  primitiveInstances, definitionPoints, renderedIDs, fakeAddrs,
                  groups, stack, out, visitLog, prevIDs, prevDefs >>
  /\ UNCHANGED << goroutines, visitedPointers >>

\* one iteration of the loop of assignReferenceIDs for a root that needs an
\* ID: d.referenceIDs is read as it is now; after the last iteration the
\* queue of the first determineDefinitionPoints
AssignStep ==
  /\ pc = "assign"
  /\ queue # <<>>
  /\ LET rootKey == Head(queue)
         exists == rootKey \in DOMAIN referenceIDs
     IN  /\ referenceIDs' = IF exists THEN referenceIDs
                            ELSE referenceIDs @@ (rootKey :> Label(ri))
         /\ IF Tail(queue) # <<>>
              THEN /\ ri' = IF exists THEN ri ELSE ri + 1
                   /\ queue' = Tail(queue)
                   /\ UNCHANGED pc
              ELSE /\ ri' = 1
                   /\ pc' = "defpoints"
                   /\ queue' = << [v |-> roots[1], level |-> 0] >>
  /\ UNCHANGED << g, roots, run, traversed, referenceStats, canonicalRoots,
                  primitiveInstances, definitionPoints, renderedIDs, fakeAddrs,
                  groups, stack, out, visitLog, prevIDs, prevDefs >>
  /\ UNCHANGED << goroutines, visitedPointers >>

(***************************************************************************)
(* The passes followed access by access.  A step is one read or one write  *)
(* of a field of the Dumper, of one of its maps or of a RefStats a map     *)
(* points at (x++ is a read and then a write); what lies between two       *)
(* accesses works on locals of the goroutine and is part of the step       *)
(* before it.  frame.op names the access the goroutine makes next; with    *)
(* frame = NoFrame it is between two iterations of the loop of its pass.   *)
(* A map lookup or store is one step: the runtime either carries it out or *)
(* ends the process, see RaceFault.                                        *)
(***************************************************************************)
\* m[x] = append(m[x], k)
Listed(m, x, k) ==
  IF x \in DOMAIN m THEN [m EXCEPT ![x] = Append(@, k)] ELSE m @@ (x :> << k >>)

\* the chain of interfaces getInstanceKey descends before it looks at v
RECURSIVE Unwrap(_)
Unwrap(v) ==
  IF v = 0 THEN 0
  ELSE IF g[v].kind = "iface"
    THEN IF g[v].elem = 0 THEN 0 ELSE Unwrap(g[v].elem)
    ELSE v

\* getRawKey and getInstanceKey reach d.fakeAddrs for the value t
UsesFake(t) ==
  t # 0 /\ ~g[t].canAddr /\ isPrimitiveKind(g[t].kind) /\ tryExport(t)

\* d.findRoot(k) is called; ret names what the caller does with the result
StartFind(fr, k, ret) ==
  [fr EXCEPT !.op = "frLookup", !.fk = k, !.path = <<>>, !.ret = ret]

\* the loop of union calls of unifyAllCopies goes on to its next call
NextPair(fr) ==
  IF Len(fr.pairs) > 1
    THEN StartFind([fr EXCEPT !.pairs = Tail(@)], Head(Tail(fr.pairs))[1], "union1")
    ELSE [fr EXCEPT !.op = "end"]

\* a getRawKey, getInstanceKey or findRoot call has returned into the
\* frame: the caller goes on to its next access ("end": the iteration makes
\* no further access)
After(fr) ==
  CASE fr.ret = "pvKey" ->
         IF fr.ok THEN [fr EXCEPT !.op = "statsLookup"] ELSE [fr EXCEPT !.op = "end"]
    [] fr.ret = "union1" ->
         StartFind([fr EXCEPT !.root1 = fr.root], Head(fr.pairs)[2], "union2")
    [] fr.ret = "union2" ->
         IF fr.root1 # fr.root THEN [fr EXCEPT !.op = "unionStore"] ELSE NextPair(fr)
    [] fr.ret = "mMember" ->
         [fr EXCEPT !.mem = Listed(@, fr.root, fr.key), !.op = "mRange"]
    [] fr.ret = "dKey" ->
         IF fr.ok THEN StartFind(fr, fr.key, "dRoot") ELSE [fr EXCEPT !.op = "end"]
    [] fr.ret = "dRoot" -> [fr EXCEPT !.op = "dID"]
    [] fr.ret = "dInst" ->
         IF fr.ikok THEN [fr EXCEPT !.op = "dStore"] ELSE [fr EXCEPT !.op = "end"]
    [] fr.ret = "fRoot" -> [fr EXCEPT !.op = "fID"]
    [] fr.ret = "rKey" ->
         IF fr.ok THEN StartFind(fr, fr.key, "rRoot")
                  ELSE [fr EXCEPT !.act = "plain", !.op = "end"]
    [] fr.ret = "rRoot" -> [fr EXCEPT !.op = "rID"]
    [] fr.ret = "rInst" ->
         IF fr.exists /\ fr.ikok /\ fr.inc.instanceKey = fr.ik
           THEN [fr EXCEPT !.op = "rRendered"]
           ELSE [fr EXCEPT !.act = "backref", !.op = "end"]

\* getRawKey (inst = FALSE) or getInstanceKey (inst = TRUE) returns k, ok
KeyDone(fr, k, ok) ==
  IF fr.inst
    THEN After([fr EXCEPT !.ik = k, !.ikok = ok, !.ikset = TRUE])
    ELSE After([fr EXCEPT !.key = k, !.ok = ok])

\* d.getRawKey(v) or d.getInstanceKey(v) is called: up to its lookup in
\* d.fakeAddrs, or, when it does not get there, through to its return
StartKey(fr, v, inst, ret) ==
  LET t == IF inst THEN Unwrap(v) ELSE deref(v)
      rk == IF inst THEN getInstanceKey(EmptyMap, v) ELSE getRawKey(EmptyMap, v)
  IN  IF UsesFake(t)
        THEN [fr EXCEPT !.op = "fakeLookup", !.t = t, !.inst = inst, !.ret = ret]
        ELSE KeyDone([fr EXCEPT !.inst = inst, !.ret = ret], rk.key, rk.ok)

\* the RefStats the goroutine holds a pointer to: the one d.referenceStats
\* has under the key, unless that entry or the map has been replaced since
HeldStats(fr) == IF fr.att THEN referenceStats[fr.key] ELSE fr.st

\* d.referenceStats and the frame after a write through the pointer held
StatsAfterWrite(fr, new) ==
  IF fr.att THEN [referenceStats EXCEPT ![fr.key] = new] ELSE referenceStats

FrameAfterWrite(fr, new) == IF fr.att THEN fr ELSE [fr EXCEPT !.st = new]

\* the other goroutine after the running one has replaced the entry of key
\* k: a pointer it holds to the old RefStats no longer leads into the map
ParkedAfterStore(k) ==
  IF shared /\ parked.frame.att /\ parked.frame.key = k /\ k \in DOMAIN referenceStats
    THEN [parked EXCEPT !.frame = [parked.frame EXCEPT !.att = FALSE,
                                                        !.st = referenceStats[k]]]
    ELSE parked

\* the map a range loop is iterating: the one the field held when the loop
\* began
RangedMap(fr) == IF fr.live THEN referenceStats ELSE fr.held

\* the end of one iteration of the pre-scan loop: the children are queued;
\* after the last root the call goes on to unifyAllCopies
PreScanEnd(fr) ==
  LET item == Head(queue)
      exp == item.v # 0 /\ Expands(EmptyMap, traversed, item.v)
  IN  \E ord \in (IF exp THEN ChildOrders(item.v) ELSE { <<>> }) :
        LET q == IF exp THEN Tail(queue) \o Children(item.v, item.level, ord)
                        ELSE Tail(queue)
            trav == IF exp THEN traversed \cup {getRawKey(EmptyMap, item.v).key}
                           ELSE traversed
        IN  /\ frame' = NoFrame
            /\ IF q # <<>>
                 THEN /\ queue' = q
                      /\ traversed' = trav
                      /\ UNCHANGED << pc, ri >>
                 ELSE IF ri < Len(roots)
                   THEN /\ queue' = << [v |-> roots[ri + 1], level |-> 0] >>
                        /\ traversed' = {}
                        /\ ri' = ri + 1
                        /\ UNCHANGED pc
                   ELSE /\ queue' = <<>>
                        /\ traversed' = {}
                        /\ ri' = 0
                        /\ pc' = "unify"
            /\ UNCHANGED << groups, stack, out, visitLog >>

\* the end of the work on one value list of unifyAllCopies
GroupEnd(fr) ==
  /\ frame' = NoFrame
  /\ UNCHANGED << pc, ri, queue, traversed, groups, stack, out, visitLog >>

\* assignReferenceIDs returns: the queue of the first
\* determineDefinitionPoints
AssignEnd(fr) ==
  /\ frame' = NoFrame
  /\ pc' = "defpoints"
  /\ ri' = 1
  /\ queue' = << [v |-> roots[1], level |-> 0] >>
  /\ traversed' = {}
  /\ UNCHANGED << groups, stack, out, visitLog >>

\* the end of one iteration of the loop of determineDefinitionPoints
DefPointEnd(fr) ==
  LET item == Head(queue)
      v == item.v
      exp == fr.ok /\ Expands(EmptyMap, traversed, v)
      ik == IF fr.ikset THEN [ok |-> fr.ikok, key |-> fr.ik]
            ELSE IF v = 0 THEN [ok |-> FALSE, key |-> NoKey]
            ELSE getInstanceKey(fakeAddrs, v)
  IN  \E ord \in (IF exp THEN ChildOrders(v) ELSE { <<>> }) :
        LET q == IF exp THEN Tail(queue) \o Children(v, item.level, ord)
                        ELSE Tail(queue)
            trav == IF exp THEN traversed \cup {getRawKey(EmptyMap, v).key}
                           ELSE traversed
        IN  /\ frame' = NoFrame
            /\ visitLog' =
                 IF fr.hasID
                   THEN Append(visitLog,
                               [v |-> v, level |-> item.level, root |-> fr.root,
                                isPointerRef |-> isPointerRef(v),
                                indirectionLevel |-> getIndirectionLevel(v),
                                instanceKey |-> ik.key, instOK |-> ik.ok])
                   ELSE visitLog
            /\ IF q # <<>>
                 THEN /\ queue' = q
                      /\ traversed' = trav
                      /\ UNCHANGED << pc, ri, stack >>
                 ELSE IF ri < Len(roots)
                   THEN /\ queue' = << [v |-> roots[ri + 1], level |-> 0] >>
                        /\ traversed' = {}
                        /\ ri' = ri + 1
                        /\ UNCHANGED << pc, stack >>
                   ELSE /\ queue' = <<>>
                        /\ traversed' = {}
                        /\ ri' = 1
                        /\ pc' = "render"
                        /\ stack' = << [v |-> roots[1], level |-> 0, skip |-> FALSE,
                                        field |-> FALSE, anc |-> {}] >>
            /\ UNCHANGED << groups, out >>

\* the renderValue call of the top frame leaves st as the pending calls
RenderLeave(fr, st) ==
  /\ frame' = NoFrame
  /\ out' = Append(out, [fr.log EXCEPT !.act = fr.act,
                                       !.pushed = Len(st) - Len(Tail(stack))])
  /\ IF st # <<>>
       THEN stack' = st /\ UNCHANGED << pc, ri >>
       ELSE IF ri < Len(roots)
         THEN /\ stack' = << [v |-> roots[ri + 1], level |-> 0,
                              skip |-> FALSE, field |-> FALSE, anc |-> {}] >>
              /\ ri' = ri + 1
              /\ UNCHANGED pc
         ELSE /\ stack' = <<>>
              /\ pc' = "done"
              /\ UNCHANGED ri
  /\ UNCHANGED << queue, traversed, groups, visitLog >>

\* the reference check of the top frame is over: the call returns, or goes
\* on to render the value, which puts the calls for its children on the stack
RenderEnd(fr) ==
  LET f == Head(stack) IN
  IF Expanding(fr.act)
    THEN \E ord \in (IF g[f.v].kind = "map" THEN MapOrders(f.v) ELSE { <<>> }) :
           RenderLeave(fr, ChildFrames(f.v, f.level, f.anc, ord) \o Tail(stack))
    ELSE RenderLeave(fr, Tail(stack))

\* the goroutine after an access: at its next access, or, the iteration
\* being over, between two iterations
Step(fr) ==
  IF fr.op # "end"
    THEN /\ frame' = fr
         /\ UNCHANGED << pc, ri, queue, traversed, groups, stack, out, visitLog >>
    ELSE IF pc = "prescan" THEN PreScanEnd(fr)
    ELSE IF pc = "unify2" THEN GroupEnd(fr)
    ELSE IF pc = "assign" THEN AssignEnd(fr)
    ELSE IF pc = "defpoints" THEN DefPointEnd(fr)
    ELSE RenderEnd(fr)

\* getRawKey and getInstanceKey on a non-addressable primitive: the lookup
\* in d.fakeAddrs, len(d.fakeAddrs), the store
KeyAccess ==
  /\ pc \in {"prescan", "defpoints", "render"}
  /\ frame.op \in {"fakeLookup", "fakeLen", "fakeStore"}
  /\ LET t == frame.t IN
     CASE frame.op = "fakeLookup" ->
            /\ UNCHANGED fakeAddrs
            /\ IF FakeHit(fakeAddrs, t)
                 THEN Step(KeyDone(frame, Key(fakeAddrs[FakeSlot(t)], g[t].typ), TRUE))
                 ELSE Step([frame EXCEPT !.op = "fakeLen"])
       [] frame.op = "fakeLen" ->
            /\ UNCHANGED fakeAddrs
            /\ Step([frame EXCEPT !.n = FakeBase + Cardinality(DOMAIN fakeAddrs),
                                  !.op = "fakeStore"])
       [] frame.op = "fakeStore" ->
            /\ fakeAddrs' = (FakeEntry(fakeAddrs, t) :> frame.n) @@ fakeAddrs
            /\ Step(KeyDone(frame, Key(frame.n, g[t].typ), TRUE))
  /\ UNCHANGED << referenceStats, referenceIDs, canonicalRoots, primitiveInstances,
                  definitionPoints, renderedIDs >>
  /\ UNCHANGED << g, roots, run, prevIDs, prevDefs, shared, cur, parked, solo,
                  preemptions, visitedPointers >>

\* findRoot: the lookup of k, the store of k as its own root, the second
\* lookup (the argument of the recursive call), and on the way back the
\* store of the root under every key of the path
FindRootAccess ==
  /\ pc \in {"unify2", "assign", "defpoints", "render"}
  /\ frame.op \in {"frLookup", "frSelf", "frAgain", "frSet"}
  /\ LET k == frame.fk IN
     CASE frame.op = "frLookup" ->
            /\ UNCHANGED canonicalRoots
            /\ IF k \notin DOMAIN canonicalRoots \/ canonicalRoots[k] = k
                 THEN Step([frame EXCEPT !.op = "frSelf"])
                 ELSE Step([frame EXCEPT !.op = "frAgain"])
       [] frame.op = "frSelf" ->
            /\ canonicalRoots' = (k :> k) @@ canonicalRoots
            /\ IF frame.path = <<>>
                 THEN Step(After([frame EXCEPT !.root = k]))
                 ELSE Step([frame EXCEPT !.root = k, !.op = "frSet"])
       [] frame.op = "frAgain" ->
            /\ UNCHANGED canonicalRoots
            /\ Step([frame EXCEPT !.path = Append(@, k),
                                  !.fk = IF k \in DOMAIN canonicalRoots
                                           THEN canonicalRoots[k] ELSE NoKey,
                                  !.op = "frLookup"])
       [] frame.op = "frSet" ->
            LET n == Len(frame.path)
                rest == SubSeq(frame.path, 1, n - 1)
            IN  /\ canonicalRoots' = (frame.path[n] :> frame.root) @@ canonicalRoots
                /\ IF rest = <<>>
                     THEN Step(After([frame EXCEPT !.path = rest]))
                     ELSE Step([frame EXCEPT !.path = rest])
  /\ UNCHANGED << referenceStats, referenceIDs, primitiveInstances,
                  definitionPoints, renderedIDs, fakeAddrs >>
  /\ UNCHANGED << g, roots, run, prevIDs, prevDefs, shared, cur, parked, solo,
                  preemptions, visitedPointers >>

\* preScanBFS takes the next item off its queue and calls processValue, up
\* to the first access of the Dumper
PreScanBegin ==
  /\ pc = "prescan"
  /\ frame.op = ""
  /\ queue # <<>>
  /\ LET item == Head(queue) IN
     IF item.v = 0 \/ deref(item.v) = 0
       THEN Step([NoFrame EXCEPT !.op = "end"])
       ELSE Step(StartKey(NoFrame, deref(item.v), FALSE, "pvKey"))
  /\ UNCHANGED << referenceStats, referenceIDs, canonicalRoots, primitiveInstances,
                  definitionPoints, renderedIDs, fakeAddrs >>
  /\ UNCHANGED << g, roots, run, prevIDs, prevDefs, shared, cur, parked, solo,
                  preemptions, visitedPointers >>

\* processValue has counted: the primitive branch, or the return
AfterCounts(fr, stats) ==
  IF stats.isPrimitive THEN [fr EXCEPT !.op = "primLookup"]
                       ELSE [fr EXCEPT !.op = "end"]

\* processValue after its key: getOrCreateStats (lookup, store of a new
\* RefStats), the two counters of the RefStats (each a load and a store),
\* minPointerRefLevel (the read of each of the two comparisons, the store),
\* the lookup and the store in d.primitiveInstances
ProcessValueAccess ==
  /\ pc = "prescan"
  /\ frame.op \in {"statsLookup", "statsStore", "totalLoad", "totalStore",
                   "ptrLoad", "ptrStore", "minUnset", "minLess", "minStore",
                   "primLookup", "primStore"}
  /\ LET item == Head(queue)
         v == item.v
         isPtr == isPointerRef(v) \/ (g[v].kind \in {"slice", "map"} /\ ~isNil(v))
         key == frame.key
         stats == HeldStats(frame)
     IN
     CASE frame.op = "statsLookup" ->
            /\ UNCHANGED << referenceStats, primitiveInstances, parked >>
            /\ IF key \in DOMAIN referenceStats
                 THEN Step([frame EXCEPT !.att = TRUE, !.op = "totalLoad"])
                 ELSE Step([frame EXCEPT !.st = NewStats(deref(v), item.level),
                                         !.op = "statsStore"])
       [] frame.op = "statsStore" ->
            /\ referenceStats' = (key :> frame.st) @@ referenceStats
            /\ parked' = ParkedAfterStore(key)
            /\ UNCHANGED primitiveInstances
            /\ Step([frame EXCEPT !.att = TRUE, !.op = "totalLoad"])
       [] frame.op = "totalLoad" ->
            /\ UNCHANGED << referenceStats, primitiveInstances, parked >>
            /\ Step([frame EXCEPT !.tmp = stats.total, !.op = "totalStore"])
       [] frame.op = "totalStore" ->
            LET new == [stats EXCEPT !.total = frame.tmp + 1] IN
            /\ referenceStats' = StatsAfterWrite(frame, new)
            /\ UNCHANGED << primitiveInstances, parked >>
            /\ IF isPtr
                 THEN Step([FrameAfterWrite(frame, new) EXCEPT !.op = "ptrLoad"])
                 ELSE Step(AfterCounts(FrameAfterWrite(frame, new), new))
       [] frame.op = "ptrLoad" ->
            /\ UNCHANGED << referenceStats, primitiveInstances, parked >>
            /\ Step([frame EXCEPT !.tmp = stats.ptr, !.op = "ptrStore"])
       [] frame.op = "ptrStore" ->
            LET new == [stats EXCEPT !.ptr = frame.tmp + 1] IN
            /\ referenceStats' = StatsAfterWrite(frame, new)
            /\ UNCHANGED << primitiveInstances, parked >>
            /\ Step([FrameAfterWrite(frame, new) EXCEPT !.op = "minUnset"])
       [] frame.op = "minUnset" ->
            /\ UNCHANGED << referenceStats, primitiveInstances, parked >>
            /\ IF stats.minPointerRefLevel = -1
                 THEN Step([frame EXCEPT !.op = "minStore"])
                 ELSE Step([frame EXCEPT !.op = "minLess"])
       [] frame.op = "minLess" ->
            /\ UNCHANGED << referenceStats, primitiveInstances, parked >>
            /\ IF item.level < stats.minPointerRefLevel
                 THEN Step([frame EXCEPT !.op = "minStore"])
                 ELSE Step(AfterCounts(frame, stats))
       [] frame.op = "minStore" ->
            LET new == [stats EXCEPT !.minPointerRefLevel = item.level] IN
            /\ referenceStats' = StatsAfterWrite(frame, new)
            /\ UNCHANGED << primitiveInstances, parked >>
            /\ Step(AfterCounts(FrameAfterWrite(frame, new), new))
       [] frame.op = "primLookup" ->
            /\ UNCHANGED << referenceStats, primitiveInstances, parked >>
            /\ IF key \in DOMAIN primitiveInstances
                 THEN Step([frame EXCEPT !.op = "end"])
                 ELSE Step([frame EXCEPT !.op = "primStore"])
       [] frame.op = "primStore" ->
            /\ primitiveInstances' = (key :> stats.value) @@ primitiveInstances
            /\ UNCHANGED << referenceStats, parked >>
            /\ Step([frame EXCEPT !.op = "end"])
  /\ UNCHANGED << referenceIDs, canonicalRoots, definitionPoints, renderedIDs,
                  fakeAddrs >>
  /\ UNCHANGED << g, roots, run, prevIDs, prevDefs, shared, cur, solo,
                  preemptions, visitedPointers >>

\* the first loop of unifyAllCopies: the range over d.referenceStats begins
\* (it reads the field), produces one key, or ends.  A key the map has
\* gained since the loop began may or may not be produced.  The value of
\* every key is formatted with %#v, which does not return on a value that
\* contains itself by value.
UnifyRange ==
  /\ pc = "unify"
  /\ frame.op \in {"", "range"}
  /\ IF frame.op = ""
       THEN /\ frame' = [NoFrame EXCEPT !.op = "range", !.live = TRUE,
                                        !.todo = DOMAIN referenceStats]
            /\ UNCHANGED << pc, groups >>
       ELSE LET m == RangedMap(frame) IN
            \/ \E k \in DOMAIN m \ frame.seen :
                 LET fr == [frame EXCEPT !.todo = @ \ {k}, !.seen = @ \cup {k}] IN
                 IF m[k].valueKind = "struct" /\ IsZeroSizedType(k.typ)
                   THEN frame' = fr /\ UNCHANGED << pc, groups >>
                 ELSE IF FmtRecursesForever(m[k].value, FmtFuel)
                   THEN frame' = fr /\ pc' = "crashed" /\ UNCHANGED groups
                 ELSE /\ frame' = [fr EXCEPT !.lists =
                                      Listed(@, Fingerprint(m[k].value, FmtFuel), k)]
                      /\ UNCHANGED << pc, groups >>
            \/ /\ frame.todo = {}
               /\ frame' = NoFrame
               /\ pc' = "unify2"
               /\ groups' = { frame.lists[x] : x \in { y \in DOMAIN frame.lists :
                                                        Len(frame.lists[y]) >= 2 } }
  /\ UNCHANGED << ri, queue, traversed, stack, out, visitLog >>
  /\ UNCHANGED << referenceStats, referenceIDs, canonicalRoots, primitiveInstances,
                  definitionPoints, renderedIDs, fakeAddrs >>
  /\ UNCHANGED << g, roots, run, prevIDs, prevDefs, shared, cur, parked, solo,
                  preemptions, visitedPointers >>

\* the union calls unifyAllCopies makes for a value list, in order, each as
\* the pair of its arguments
UnionCalls(sources, copies, isPrimitiveGroup) ==
  LET first == IF isPrimitiveGroup
                 THEN IF Len(sources) > 1 /\ Len(sources) = Len(copies)
                        THEN [i \in 1..Len(sources) |->
                                << SortByAddr(sources)[i], SortByAddr(copies)[i] >>]
                        ELSE <<>>
                 ELSE IF Len(sources) > 1 /\ Len(copies) = 0
                        THEN [i \in 1..(Len(sources) - 1) |->
                                << sources[i + 1], sources[1] >>]
                        ELSE <<>>
      second == IF Len(sources) = 1 /\ Len(copies) > 0
                  THEN [i \in 1..Len(copies) |-> << copies[i], sources[1] >>]
                  ELSE <<>>
  IN  first \o second

\* the loop that sorts a value list into sources and copies goes on to its
\* next key, or is over
NextKey(fr) ==
  IF fr.i < Len(fr.keys)
    THEN [fr EXCEPT !.i = @ + 1, !.att = FALSE, !.op = "classify"]
    ELSE [fr EXCEPT !.att = FALSE, !.op = "primGroup"]

\* the second loop of unifyAllCopies up to its union calls: the next value
\* list with at least two keys is taken (in the order of a map iteration);
\* for every key the lookup in d.referenceStats and the read of the count
\* of the RefStats found; the lookup of keys[0]
UnifyGroupAccess ==
  /\ pc = "unify2"
  /\ frame.op \in {"", "classify", "classifyPtr", "primGroup"}
  /\ CASE frame.op = "" ->
            /\ groups # {}
            /\ \E keys \in groups :
                 /\ groups' = groups \ {keys}
                 /\ frame' = [NoFrame EXCEPT !.keys = keys, !.i = 1, !.op = "classify"]
            /\ UNCHANGED << pc, ri, queue, traversed, stack, out, visitLog >>
       [] frame.op = "classify" ->
            LET key == frame.keys[frame.i] IN
            IF key \in DOMAIN referenceStats
              THEN Step([frame EXCEPT !.key = key, !.att = TRUE, !.op = "classifyPtr"])
              ELSE Step(NextKey([frame EXCEPT !.cps = Append(@, key)]))
       [] frame.op = "classifyPtr" ->
            IF HeldStats(frame).ptr > 0
              THEN Step(NextKey([frame EXCEPT !.srcs = Append(@, frame.key)]))
              ELSE Step(NextKey([frame EXCEPT !.cps = Append(@, frame.key)]))
       [] frame.op = "primGroup" ->
            LET isPrimitiveGroup == /\ frame.keys[1] \in DOMAIN referenceStats
                                    /\ referenceStats[frame.keys[1]].isPrimitive
                calls == UnionCalls(frame.srcs, frame.cps, isPrimitiveGroup)
            IN  IF calls = <<>>
                  THEN Step([frame EXCEPT !.op = "end"])
                  ELSE Step(StartFind([frame EXCEPT !.pairs = calls],
                                      calls[1][1], "union1"))
  /\ UNCHANGED << referenceStats, referenceIDs, canonicalRoots, primitiveInstances,
                  definitionPoints, renderedIDs, fakeAddrs >>
  /\ UNCHANGED << g, roots, run, prevIDs, prevDefs, shared, cur, parked, solo,
                  preemptions, visitedPointers >>

\* union after its two findRoot calls: the store that joins the two roots
UnionStore ==
  /\ pc = "unify2"
  /\ frame.op = "unionStore"
  /\ canonicalRoots' =
       IF frame.root1.addr < frame.root.addr
         THEN (frame.root :> frame.root1) @@ canonicalRoots
         ELSE (frame.root1 :> frame.root) @@ canonicalRoots
  /\ Step(NextPair(frame))
  /\ UNCHANGED << referenceStats, referenceIDs, primitiveInstances,
                  definitionPoints, renderedIDs, fakeAddrs >>
  /\ UNCHANGED << g, roots, run, prevIDs, prevDefs, shared, cur, parked, solo,
                  preemptions, visitedPointers >>

\* the loop of assignReferenceIDs over the sorted roots: the roots that
\* need an ID, in the order of the sort
AssignStart(fr) ==
  LET need == SelectSeq(SortKeys(DOMAIN fr.mrg), LAMBDA k : NeedsID(fr.mrg[k])) IN
  IF need = <<>>
    THEN [fr EXCEPT !.op = "end"]
    ELSE [fr EXCEPT !.sorted = need, !.idc = 1, !.op = "aLookup"]

\* the second loop of getMergedStats goes on to its next root, or is over
RootMerged(fr) ==
  IF DOMAIN fr.mem = DOMAIN fr.mrg
    THEN AssignStart(fr)
    ELSE [fr EXCEPT !.op = "mRoot"]

\* the loop over the members of a root goes on to its next member, or is
\* over and the sums are filed under the root
NextMember(fr) ==
  IF fr.i < Len(fr.mem[fr.root])
    THEN [fr EXCEPT !.i = @ + 1, !.att = FALSE, !.op = "mLookup"]
    ELSE RootMerged([fr EXCEPT !.att = FALSE,
                               !.mrg = @ @@ (fr.root :>
                                   [totalReferencesCount |-> fr.acc.total,
                                    pointerReferencesCount |-> fr.acc.ptr])])

\* getMergedStats: the range over d.referenceStats (begin, one key with its
\* findRoot call, end); then per root, in the order of a map iteration, the
\* lookup of the root, and per member the lookup and the reads of the two
\* counts of the RefStats found
MergeAccess ==
  /\ \/ pc = "unify2" /\ groups = {} /\ frame.op = ""
     \/ pc = "assign" /\ frame.op \in {"mRange", "mRoot", "mLookup", "mTotal", "mPtr"}
  /\ CASE frame.op = "" ->
            /\ pc' = "assign"
            /\ frame' = [NoFrame EXCEPT !.op = "mRange", !.live = TRUE,
                                        !.todo = DOMAIN referenceStats]
            /\ UNCHANGED << ri, queue, traversed, groups, stack, out, visitLog >>
       [] frame.op = "mRange" ->
            LET m == RangedMap(frame) IN
            \/ \E k \in DOMAIN m \ frame.seen :
                 Step(StartFind([frame EXCEPT !.todo = @ \ {k}, !.seen = @ \cup {k},
                                              !.key = k],
                                k, "mMember"))
            \/ /\ frame.todo = {}
               /\ Step(RootMerged([frame EXCEPT !.live = FALSE, !.held = EmptyMap,
                                                !.seen = {}]))
       [] frame.op = "mRoot" ->
            \E r \in DOMAIN frame.mem \ DOMAIN frame.mrg :
              Step([frame EXCEPT !.root = r, !.i = 1,
                                 !.acc = [total |-> 0, ptr |-> 0],
                                 !.op = "mLookup"])
       [] frame.op = "mLookup" ->
            LET k == frame.mem[frame.root][frame.i] IN
            IF k \in DOMAIN referenceStats
              THEN Step([frame EXCEPT !.key = k, !.att = TRUE, !.op = "mTotal"])
              ELSE Step(NextMember(frame))
       [] frame.op = "mTotal" ->
            Step([frame EXCEPT !.acc.total = @ + HeldStats(frame).total,
                               !.op = "mPtr"])
       [] frame.op = "mPtr" ->
            Step(NextMember([frame EXCEPT !.acc.ptr = @ + HeldStats(frame).ptr]))
  /\ UNCHANGED << referenceStats, referenceIDs, canonicalRoots, primitiveInstances,
                  definitionPoints, renderedIDs, fakeAddrs >>
  /\ UNCHANGED << g, roots, run, prevIDs, prevDefs, shared, cur, parked, solo,
                  preemptions, visitedPointers >>

\* the loop of assignReferenceIDs goes on to its next root, or is over
NextRoot(fr) ==
  IF Len(fr.sorted) > 1
    THEN [fr EXCEPT !.sorted = Tail(@), !.op = "aLookup"]
    ELSE [fr EXCEPT !.op = "end"]

\* the loop of assignReferenceIDs for a root that needs an ID: the lookup in
\* d.referenceIDs and the store of the next label
AssignAccess ==
  /\ pc = "assign"
  /\ frame.op \in {"aLookup", "aStore"}
  /\ LET rootKey == Head(frame.sorted) IN
     CASE frame.op = "aLookup" ->
            /\ UNCHANGED referenceIDs
            /\ IF rootKey \in DOMAIN referenceIDs
                 THEN Step(NextRoot(frame))
                 ELSE Step([frame EXCEPT !.op = "aStore"])
       [] frame.op = "aStore" ->
            /\ referenceIDs' = (rootKey :> Label(frame.idc)) @@ referenceIDs
            /\ Step(NextRoot([frame EXCEPT !.idc = @ + 1]))
  /\ UNCHANGED << referenceStats, canonicalRoots, primitiveInstances,
                  definitionPoints, renderedIDs, fakeAddrs >>
  /\ UNCHANGED << g, roots, run, prevIDs, prevDefs, shared, cur, parked, solo,
                  preemptions, visitedPointers >>

\* determineDefinitionPoints takes the next item off its queue and calls
\* getRawKey, up to the first access of the Dumper
DefPointBegin ==
  /\ pc = "defpoints"
  /\ frame.op = ""
  /\ queue # <<>>
  /\ LET item == Head(queue) IN
     IF item.v = 0
       THEN Step([NoFrame EXCEPT !.op = "end"])
       ELSE Step(StartKey(NoFrame, item.v, FALSE, "dKey"))
  /\ UNCHANGED << referenceStats, referenceIDs, canonicalRoots, primitiveInstances,
                  definitionPoints, renderedIDs, fakeAddrs >>
  /\ UNCHANGED << g, roots, run, prevIDs, prevDefs, shared, cur, parked, solo,
                  preemptions, visitedPointers >>

\* determineDefinitionPoints after findRoot: the lookup in d.referenceIDs,
\* the lookup of the incumbent in d.definitionPoints, and, after
\* getInstanceKey, the store of the new definition point
DefPointAccess ==
  /\ pc = "defpoints"
  /\ frame.op \in {"dID", "dDef", "dStore"}
  /\ LET item == Head(queue)
         v == item.v
         rootKey == frame.root
     IN
     CASE frame.op = "dID" ->
            /\ UNCHANGED definitionPoints
            /\ IF rootKey \in DOMAIN referenceIDs
                 THEN Step([frame EXCEPT !.hasID = TRUE, !.op = "dDef"])
                 ELSE Step([frame EXCEPT !.op = "end"])
       [] frame.op = "dDef" ->
            LET exists == rootKey \in DOMAIN definitionPoints
                incumbent == IF exists THEN definitionPoints[rootKey] ELSE NoDef
                isBetter == IsBetter(exists, incumbent, isPointerRef(v),
                                     getIndirectionLevel(v), item.level)
            IN  /\ UNCHANGED definitionPoints
                /\ IF isBetter
                     THEN Step(StartKey(frame, v, TRUE, "dInst"))
                     ELSE Step([frame EXCEPT !.op = "end"])
       [] frame.op = "dStore" ->
            /\ definitionPoints' =
                 (rootKey :> [instanceKey |-> frame.ik,
                              isPointerRef |-> isPointerRef(v),
                              indirectionLevel |-> getIndirectionLevel(v),
                              level |-> item.level,
                              valueType |-> g[deref(v)].typ]) @@ definitionPoints
            /\ Step([frame EXCEPT !.op = "end"])
  /\ UNCHANGED << referenceStats, referenceIDs, canonicalRoots, primitiveInstances,
                  renderedIDs, fakeAddrs >>
  /\ UNCHANGED << g, roots, run, prevIDs, prevDefs, shared, cur, parked, solo,
                  preemptions, visitedPointers >>

\* renderValue from its entry: the returns that precede the reference
\* check, then getRawKey up to the first access of the Dumper
RenderValueEntry(fr, f) ==
  IF EarlyExit(f, FALSE) # "none"
    THEN [fr EXCEPT !.act = EarlyExit(f, FALSE), !.op = "end"]
    ELSE IF f.skip
      THEN [fr EXCEPT !.act = "cont", !.op = "end"]
      ELSE StartKey(fr, f.v, FALSE, "rKey")

\* the next pending renderValue call is made; the field loop of
\* renderStruct makes its check on a struct-kind field before it
RenderBegin ==
  /\ pc = "render"
  /\ frame.op = ""
  /\ stack # <<>>
  /\ LET f == Head(stack)
         fr == [NoFrame EXCEPT !.log = LogEntry(f, "", 0)]
     IN  IF f.field /\ f.v # 0 /\ g[f.v].kind = "struct"
              /\ getRawKey(EmptyMap, f.v).ok
           THEN Step(StartFind(fr, getRawKey(EmptyMap, f.v).key, "fRoot"))
           ELSE Step(RenderValueEntry(fr, f))
  /\ UNCHANGED << referenceStats, referenceIDs, canonicalRoots, primitiveInstances,
                  definitionPoints, renderedIDs, fakeAddrs >>
  /\ UNCHANGED << g, roots, run, prevIDs, prevDefs, shared, cur, parked, solo,
                  preemptions, visitedPointers >>

\* the check of renderStruct after findRoot (the lookups in d.referenceIDs
\* and d.definitionPoints), and the reference check of renderValue after
\* findRoot: the lookups in d.referenceIDs and d.definitionPoints, and,
\* after getInstanceKey, the read and the store of d.renderedIDs
RenderAccess ==
  /\ pc = "render"
  /\ frame.op \in {"fID", "fDef", "rID", "rDef", "rRendered", "rMark"}
  /\ LET f == Head(stack)
         rootKey == frame.root
     IN
     CASE frame.op = "fID" ->
            /\ UNCHANGED renderedIDs
            /\ IF rootKey \in DOMAIN referenceIDs
                 THEN Step([frame EXCEPT !.op = "fDef"])
                 ELSE Step(RenderValueEntry(frame, f))
       [] frame.op = "fDef" ->
            /\ UNCHANGED renderedIDs
            /\ IF /\ rootKey \in DOMAIN definitionPoints
                  /\ definitionPoints[rootKey].isPointerRef
                  /\ g[deref(f.v)].typ = definitionPoints[rootKey].valueType
                 THEN Step([frame EXCEPT !.act = "fieldref", !.op = "end"])
                 ELSE Step(RenderValueEntry(frame, f))
       [] frame.op = "rID" ->
            /\ UNCHANGED renderedIDs
            /\ IF rootKey \in DOMAIN referenceIDs
                 THEN Step([frame EXCEPT !.op = "rDef"])
                 ELSE Step([frame EXCEPT !.act = "plain", !.op = "end"])
       [] frame.op = "rDef" ->
            /\ UNCHANGED renderedIDs
            /\ Step(StartKey([frame EXCEPT
                                !.exists = rootKey \in DOMAIN definitionPoints,
                                !.inc = IF rootKey \in DOMAIN definitionPoints
                                          THEN definitionPoints[rootKey] ELSE NoDef],
                             f.v, TRUE, "rInst"))
       [] frame.op = "rRendered" ->
            /\ UNCHANGED renderedIDs
            /\ IF rootKey \in DOMAIN renderedIDs /\ renderedIDs[rootKey]
                 THEN Step([frame EXCEPT !.act = "backref", !.op = "end"])
                 ELSE Step([frame EXCEPT !.op = "rMark"])
       [] frame.op = "rMark" ->
            /\ renderedIDs' = (rootKey :> TRUE) @@ renderedIDs
            /\ Step([frame EXCEPT !.act = "def", !.op = "end"])
  /\ UNCHANGED << referenceStats, referenceIDs, canonicalRoots, primitiveInstances,
                  definitionPoints, fakeAddrs >>
  /\ UNCHANGED << g, roots, run, prevIDs, prevDefs, shared, cur, parked, solo,
                  preemptions, visitedPointers >>

\* the values the two goroutines dump through one Dumper:
\*   x := 1; var e any = 1
\*   go d.Dump(&x, x)   and   go d.Dump(&e)
G_Shared ==
  << NPtr("*int", FALSE, 0, 16, 3),
     NPrim("int", TRUE, 300, 1),
     NPrim("int", TRUE, 16, 1),
     NPtr("*interface {}", FALSE, 0, 48, 5),
     NIface("interface {}", TRUE, 48, 6),
     NPrim("int", FALSE, 0, 1) >>

\* both goroutines reach the RefStats of x, at different levels:
\*   x := 1
\*   go d.Dump(&x)   and   go d.Dump([]*int{&x})
G_SharedPtr ==
  << NPtr("*int", FALSE, 0, 16, 2),
     NPrim("int", TRUE, 16, 1),
     NSlice("[]*int", TRUE, 200, 48, <<4>>),
     NPtr("*int", TRUE, 48, 16, 2) >>

SharedInputs ==
  { [g |-> G_Shared, roots |-> <<1, 2>>, other |-> <<4>>],
    [g |-> G_SharedPtr, roots |-> <<1>>, other |-> <<3>>] }

InitShared ==
  /\ \E in \in SharedInputs :
       /\ g = in.g
       /\ roots = in.roots
       /\ parked = IdleGoroutine(in.other)
  /\ shared = TRUE
  /\ cur = 1
  /\ solo = [t \in 1..2 |-> NoResult]
  /\ frame = NoFrame
  /\ preemptions = 0
  /\ visitedPointers = {}
  /\ pc = "idle"
  /\ ri = 0
  /\ run = 0
  /\ queue = <<>>
  /\ traversed = {}
  /\ referenceStats = EmptyMap
  /\ referenceIDs = EmptyMap
  /\ canonicalRoots = EmptyMap
  /\ primitiveInstances = EmptyMap
  /\ definitionPoints = EmptyMap
  /\ renderedIDs = EmptyMap
  /\ fakeAddrs = EmptyMap
  /\ groups = {}
  /\ stack = <<>>
  /\ out = <<>>
  /\ visitLog = <<>>
  /\ prevIDs = EmptyMap
  /\ prevDefs = EmptyMap

NextConc == EnterCall \/ ResetStep \/ PreScanBegin \/ KeyAccess
            \/ ProcessValueAccess \/ UnifyRange \/ UnifyGroupAccess
            \/ FindRootAccess \/ UnionStore \/ MergeAccess \/ AssignAccess
            \/ DefPointBegin \/ DefPointAccess \/ RenderBegin \/ RenderAccess
            \/ Switch \/ RaceFault

SpecConc == InitShared /\ [][NextConc]_vars

\* the two goroutines call the package-level functions, which build a Dumper
\* for every call: no map is reached from both calls
InitOwn == InitConc /\ ~shared

NextOwn == EnterCall \/ ResetStep \/ PreScanStep \/ UnifyGroupKeys \/ UnifyGroup
           \/ AssignBegin \/ AssignStep \/ DefPointStep \/ RenderStep
           \/ Switch

SpecOwn == InitOwn /\ [][NextOwn]_vars

(***************************************************************************)
(* The union-find on its own: any sequence of union and findRoot calls on  *)
(* a Dumper, over NKeys keys of which two at a time share their address    *)
(* and differ in type (a struct and its first field).                      *)
(***************************************************************************)
UnionKeys ==
  { Key(16 * ((i + 1) \div 2), IF i % 2 = 1 THEN "int" ELSE "main.N") : i \in 1..NKeys }

InitUnion ==
  /\ g = G_PtrToPtr
  /\ roots = <<1>>
  /\ pc = "idle"
  /\ ri = 0
  /\ run = 0
  /\ queue = <<>>
  /\ traversed = {}
  /\ referenceStats = EmptyMap
  /\ referenceIDs = EmptyMap
  /\ canonicalRoots = EmptyMap
  /\ primitiveInstances = EmptyMap
  /\ definitionPoints = EmptyMap
  /\ renderedIDs = EmptyMap
  /\ fakeAddrs = EmptyMap
  /\ groups = {}
  /\ stack = <<>>
  /\ out = <<>>
  /\ visitLog = <<>>
  /\ prevIDs = EmptyMap
  /\ prevDefs = EmptyMap
  /\ shared = FALSE
  /\ cur = 1
  /\ parked = EmptyMap
  /\ solo = EmptyMap
  /\ frame = NoFrame
  /\ preemptions = 0
  /\ visitedPointers = {}

\* d.union(k1, k2)
UnionAny ==
  /\ \E k1, k2 \in UnionKeys : canonicalRoots' = union(canonicalRoots, k1, k2)
  /\ UNCHANGED << g, roots, pc, ri, run, queue, traversed, referenceStats,
                  referenceIDs, primitiveInstances, definitionPoints, renderedIDs,
                  fakeAddrs, groups, stack, out, visitLog, prevIDs, prevDefs >>
  /\ UNCHANGED << goroutines, visitedPointers >>

\* d.findRoot(k)
LookupAny ==
  /\ \E k \in UnionKeys : canonicalRoots' = findRoot(canonicalRoots, k)
  /\ UNCHANGED << g, roots, pc, ri, run, queue, traversed, referenceStats,
                  referenceIDs, primitiveInstances, definitionPoints, renderedIDs,
                  fakeAddrs, groups, stack, out, visitLog, prevIDs, prevDefs >>
  /\ UNCHANGED << goroutines, visitedPointers >>

NextUnion == UnionAny \/ LookupAny

SpecUnion == InitUnion /\ [][NextUnion]_vars

(***************************************************************************)
(* Calls with TrackReferences off: renderAllValues runs no analysis pass   *)
(* and no resetState, and renderValue guards against cycles with           *)
(* d.visitedPointers alone.                                                *)
(***************************************************************************)
\* getValPtr: the address the guard files the occurrence under (0 is nil)
RECURSIVE getValPtr(_)
getValPtr(v) ==
  CASE g[v].kind \in {"ptr", "map", "slice", "chan", "func"} ->
         IF isNil(v) THEN 0 ELSE g[v].ptr
    [] g[v].kind = "iface" -> IF g[v].elem = 0 THEN 0 ELSE getValPtr(g[v].elem)
    [] OTHER -> IF g[v].canAddr THEN g[v].addr ELSE 0

\* the composite the occurrence denotes is being expanded around the call
InOwnExpansion(f) ==
  /\ ObjId(deref(f.v)) # NoKey
  /\ ObjId(deref(f.v)) \in f.anc

PlainLog(f, act, pushed) ==
  [v |-> f.v, level |-> f.level, act |-> act, skip |-> f.skip,
   pushed |-> pushed, closing |-> InOwnExpansion(f)]

\* what the call does: an early return, "<cycle>", or the value itself
PlainAction(f, early, addr) ==
  IF early # "none" THEN early
  ELSE IF addr # 0 /\ addr \in visitedPointers THEN "cycle"
  ELSE "plain"

\* the state after the call: st is the stack of pending calls it leaves
PlainEffect(f, act, addr, st) ==
  /\ visitedPointers' = IF act = "plain" /\ addr # 0
                          THEN visitedPointers \cup {addr}
                          ELSE visitedPointers
  /\ out' = Append(out, PlainLog(f, act, Len(st) - Len(Tail(stack))))
  /\ IF st # <<>>
       THEN stack' = st /\ UNCHANGED << pc, ri >>
       ELSE IF ri < Len(roots)
         THEN /\ stack' = << [v |-> roots[ri + 1], level |-> 0,
                              skip |-> FALSE, field |-> FALSE, anc |-> {}] >>
              /\ ri' = ri + 1
              /\ UNCHANGED pc
         ELSE /\ stack' = <<>>
              /\ pc' = "done"
              /\ UNCHANGED ri

PlainCall(f, act, addr) ==
  IF act = "plain"
    THEN \E ord \in (IF g[f.v].kind = "map" THEN MapOrders(f.v) ELSE { <<>> }) :
           PlainEffect(f, act, addr, ChildFrames(f.v, f.level, f.anc, ord) \o Tail(stack))
    ELSE PlainEffect(f, act, addr, Tail(stack))

\* renderAllValues up to the first renderValue call
BeginPlain ==
  /\ pc \in {"idle", "done"}
  /\ run < MaxRuns
  /\ run' = run + 1
  /\ g' = MadeAddressable
  /\ pc' = "plain"
  /\ ri' = 1
  /\ stack' = << [v |-> roots[1], level |-> 0, skip |-> FALSE,
                  field |-> FALSE, anc |-> {}] >>
  /\ out' = <<>>
  /\ UNCHANGED << roots, queue, traversed, referenceStats, referenceIDs,
                  canonicalRoots, primitiveInstances, definitionPoints,
                  renderedIDs, fakeAddrs, groups, visitLog, prevIDs, prevDefs >>
  /\ UNCHANGED << goroutines, visitedPointers >>

\* one renderValue call
PlainStep ==
  /\ pc = "plain"
  /\ stack # <<>>
  /\ LET f == Head(stack)
         addr == IF f.v = 0 THEN 0 ELSE getValPtr(f.v)
     IN  PlainCall(f, PlainAction(f, EarlyExit(f, FALSE), addr), addr)
  /\ UNCHANGED << g, roots, run, queue, traversed, referenceStats, referenceIDs,
                  canonicalRoots, primitiveInstances, definitionPoints,
                  renderedIDs, fakeAddrs, groups, visitLog, prevIDs, prevDefs >>
  /\ UNCHANGED goroutines

NextPlain == BeginPlain \/ PlainStep

SpecPlain == Init /\ [][NextPlain]_vars

(***************************************************************************)
(* Properties.                                                             *)
(***************************************************************************)
\* the analysis passes up to and including assignReferenceIDs have run
IDsAssigned == pc \in {"defpoints", "render", "done"}

\* all four analysis passes have run
AnalysisDone == pc \in {"render", "done"}

\* the keys of the union-find class of r that were counted by the pre-scan
ClassOf(r) == { k \in DOMAIN referenceStats : RootOf(canonicalRoots, k) = r }

RECURSIVE ClassSum(_, _)
ClassSum(S, pointerOnly) ==
  IF S = {} THEN 0
  ELSE LET k == CHOOSE x \in S : TRUE
       IN  (IF pointerOnly THEN referenceStats[k].ptr ELSE referenceStats[k].total)
           + ClassSum(S \ {k}, pointerOnly)

ClassPtr(r) == ClassSum(ClassOf(r), TRUE)
ClassTotal(r) == ClassSum(ClassOf(r), FALSE)

Qualifies(r) ==
  /\ ClassOf(r) # {}
  /\ RootOf(canonicalRoots, r) = r
  /\ (ClassPtr(r) > 1 \/ (ClassPtr(r) > 0 /\ ClassTotal(r) > ClassPtr(r)))

AllKeys == DOMAIN referenceStats \cup DOMAIN canonicalRoots \cup DOMAIN referenceIDs

\* C1: after ID assignment a key has a label if and only if it is a
\* union-find root whose counts, summed over the keys of its class, satisfy
\* pointerRefs > 1, or pointerRefs > 0 and totalRefs > pointerRefs.
C1_SharingRule ==
  IDsAssigned => \A k \in AllKeys : (k \in DOMAIN referenceIDs) <=> Qualifies(k)

\* a labelled root that qualifies only through the counts of the copies
\* merged into it, next to a pointed-to root that stays without a label
C1_Witness ==
  /\ pc = "defpoints"
  /\ \E r \in DOMAIN referenceIDs :
        /\ Cardinality(ClassOf(r)) > 1
        /\ referenceStats[r].ptr = 1
        /\ referenceStats[r].total = 1
  /\ \E k \in DOMAIN referenceStats :
        /\ RootOf(canonicalRoots, k) = k
        /\ ClassPtr(k) = 1
        /\ k \notin DOMAIN referenceIDs

\* C10: the labels of one call are exactly &1 .. &n for the n labelled
\* roots, pairwise distinct, and ascend with the roots' order by location
\* and then by type name.
C10_SequentialLabels ==
  IDsAssigned =>
    LET n == Cardinality(DOMAIN referenceIDs) IN
    /\ { referenceIDs[k] : k \in DOMAIN referenceIDs } = { Label(i) : i \in 1..n }
    /\ \A a, b \in DOMAIN referenceIDs :
          (a.addr < b.addr \/ (a.addr = b.addr /\ TypeRank(a.typ) < TypeRank(b.typ)))
             => referenceIDs[a].num < referenceIDs[b].num

\* two labelled roots at one location, ordered by type name, after a root on
\* the sorted list that got no label
C10_Witness ==
  /\ pc = "defpoints"
  /\ \E a, b \in DOMAIN referenceIDs :
        /\ a.addr = b.addr
        /\ a # b
        /\ referenceIDs[a].num + 1 = referenceIDs[b].num
  /\ \E k \in DOMAIN referenceStats, a \in DOMAIN referenceIDs :
        /\ k \notin DOMAIN referenceIDs
        /\ RootOf(canonicalRoots, k) = k
        /\ KeyLess(k, a)

\* the visit i of the definition-point pass is the one recorded as d
IsVisitOf(i, r, d) ==
  /\ visitLog[i].root = r
  /\ visitLog[i].instOK
  /\ visitLog[i].instanceKey = d.instanceKey
  /\ visitLog[i].isPointerRef = d.isPointerRef
  /\ visitLog[i].indirectionLevel = d.indirectionLevel
  /\ visitLog[i].level = d.level

\* C5: when the analysis passes have finished, the roots with a definition
\* point are exactly the roots with an ID, and each definition point is an
\* occurrence the definition-point pass visited for that root.
C5_DefinitionPointPerID ==
  AnalysisDone =>
    /\ DOMAIN definitionPoints = DOMAIN referenceIDs
    /\ \A r \in DOMAIN definitionPoints :
          \E i \in 1..Len(visitLog) : IsVisitOf(i, r, definitionPoints[r])

\* a root with an ID whose class holds a merged copy, its definition point
\* recorded from a visit of the copy, next to a counted root without an ID
C5_Witness ==
  /\ pc = "render"
  /\ \E r \in DOMAIN referenceIDs :
        /\ Cardinality(ClassOf(r)) > 1
        /\ r \in DOMAIN definitionPoints
        /\ definitionPoints[r].instanceKey # r
        /\ ~definitionPoints[r].isPointerRef
  /\ \E k \in DOMAIN referenceStats :
        RootOf(canonicalRoots, k) \notin DOMAIN referenceIDs

\* the priority order of occurrences: a before b
Precedes(a, b) ==
  \/ ~a.isPointerRef /\ b.isPointerRef
  \/ /\ a.isPointerRef /\ b.isPointerRef
     /\ a.indirectionLevel < b.indirectionLevel
  \/ /\ a.isPointerRef /\ b.isPointerRef
     /\ a.indirectionLevel = b.indirectionLevel
     /\ a.level < b.level
  \/ /\ ~a.isPointerRef /\ ~b.isPointerRef
     /\ a.level < b.level

\* C6: after the definition-point pass the definition point of an ID'd root
\* is minimal among the visited occurrences of the root in the order
\* non-pointer before pointer, lower indirection, lower depth, and it is the
\* first visited among the minimal ones.
C6_PriorityOrder ==
  AnalysisDone =>
    \A r \in DOMAIN definitionPoints :
      \E i \in 1..Len(visitLog) :
        /\ IsVisitOf(i, r, definitionPoints[r])
        /\ \A j \in 1..Len(visitLog) :
              visitLog[j].root = r =>
                /\ ~Precedes(visitLog[j], visitLog[i])
                /\ j < i => Precedes(visitLog[i], visitLog[j])

\* a definition point taken from a pointer visited after a pointer of the
\* same root at no greater depth but with more indirection
C6_Witness ==
  /\ pc = "done"
  /\ \E r \in DOMAIN definitionPoints :
       \E i, j \in 1..Len(visitLog) :
         /\ j < i
         /\ IsVisitOf(i, r, definitionPoints[r])
         /\ visitLog[j].root = r
         /\ visitLog[j].isPointerRef
         /\ visitLog[i].isPointerRef
         /\ visitLog[j].level <= visitLog[i].level
         /\ visitLog[j].indirectionLevel > visitLog[i].indirectionLevel

\* the renderValue calls that printed the label of r and went on to its value
DefEvents(r) == { i \in 1..Len(out) : out[i].act = "def" /\ out[i].root = r }

IsBackref(e) == e.act \in {"backref", "fieldref"}

\* C3: within one call the label and expansion of an ID'd root are emitted
\* at most once, and the root's rendered flag is set exactly from the moment
\* its definition is emitted until the end of the call.
C3_RenderedOnce ==
  /\ DOMAIN renderedIDs \subseteq DOMAIN referenceIDs
  /\ \A r \in DOMAIN referenceIDs :
        /\ Cardinality(DefEvents(r)) <= 1
        /\ (r \in DOMAIN renderedIDs) <=> (DefEvents(r) # {})
  /\ \A r \in DOMAIN renderedIDs : renderedIDs[r]

\* the definition occurrence met again after its label was printed
C3_Witness ==
  /\ pc = "done"
  /\ \E i, j \in 1..Len(out) :
        /\ i < j
        /\ out[i].act = "def"
        /\ out[j].root = out[i].root
        /\ out[j].inst = out[i].inst
        /\ ~out[j].skip
        /\ out[j].act = "backref"
        /\ out[i].root \in DOMAIN renderedIDs

\* the renderValue call i is made on the occurrence chosen as definition
\* point of its root, and no earlier call was
IsFirstDefVisit(i) ==
  /\ out[i].root \in DOMAIN definitionPoints
  /\ out[i].inst = definitionPoints[out[i].root].instanceKey
  /\ \A j \in 1..(i - 1) :
        ~(~out[j].skip /\ out[j].root = out[i].root /\ out[j].inst = out[i].inst)

\* an encounter: a renderValue call made for an occurrence itself, not the
\* call a pointer or interface makes for the value it was just checked for
IsEncounter(i) == ~out[i].skip /\ out[i].hasID

\* C4 as stated: every encounter of an occurrence whose root has an ID,
\* other than the first visit of the definition occurrence, emits only a
\* back-reference and does not descend into the value.
C4_AnyEncounter ==
  \A i \in 1..Len(out) :
     IsEncounter(i) /\ ~IsFirstDefVisit(i) => IsBackref(out[i]) /\ out[i].pushed = 0

\* the call i came to the reference check of renderValue: it did not
\* return at the depth limit or for an invalid or nil value
ReachesCheck(i) ==
  /\ out[i].level <= MaxDepth
  /\ out[i].v # 0
  /\ ~isNil(out[i].v)

\* the call i is the first to come to the reference check with the
\* instance key recorded as the definition point of its root
IsFirstCheckedDefVisit(i) ==
  /\ out[i].root \in DOMAIN definitionPoints
  /\ out[i].inst = definitionPoints[out[i].root].instanceKey
  /\ \A j \in 1..(i - 1) :
        ~(/\ ~out[j].skip
          /\ ReachesCheck(j)
          /\ out[j].root = out[i].root
          /\ out[j].inst = out[i].inst)

\* C4 amended: every encounter that comes to the reference check (nesting
\* level within MaxDepth, occurrence valid and not nil) of an occurrence
\* whose root has an ID, other than the first such encounter of the
\* definition occurrence, emits only a back-reference and does not descend;
\* this includes the definition occurrence met again during its expansion.
\* A nil slice or map that belongs to a class with an ID prints <nil>, and
\* an occurrence below the depth limit prints the depth marker.
C4_EncounterAtCheck ==
  \A i \in 1..Len(out) :
     IsEncounter(i) /\ ReachesCheck(i) /\ ~IsFirstCheckedDefVisit(i)
        => IsBackref(out[i]) /\ out[i].pushed = 0

\* the definition occurrence met again while its expansion is in progress
C4_Witness ==
  /\ pc = "done"
  /\ \E i, j \in 1..Len(out) :
        /\ i < j
        /\ out[i].act = "def"
        /\ out[j].closing
        /\ out[j].root = out[i].root
        /\ out[j].inst = out[i].inst
        /\ IsEncounter(j)
        /\ ReachesCheck(j)
        /\ ~IsFirstCheckedDefVisit(j)
        /\ out[j].act = "backref"
        /\ out[j].pushed = 0

\* no renderValue call of the call was cut by the depth limit (no input
\* here is longer than MaxItems, so no item is dropped either)
NoTruncation == \A i \in 1..Len(out) : out[i].act # "maxdepth"

\* C2: in the output of a completed call without truncation, every ID
\* printed as a back-reference is also printed exactly once as a definition
\* carrying the value.
C2_BackrefHasDefinition ==
  pc = "done" /\ NoTruncation =>
    \A i \in 1..Len(out) :
       IsBackref(out[i]) => Cardinality(DefEvents(out[i].root)) = 1

\* C7: the edge that closes a cycle (an occurrence of a composite whose
\* expansion is still in progress) is printed as a back-reference, neither
\* expanded again nor cut by the depth limit.
C7_ClosingEdgeIsBackref ==
  \A i \in 1..Len(out) : out[i].closing => IsBackref(out[i])

\* C8: the analysis of a call never fails.
C8_AnalysisNeverFails == pc # "crashed"

\* every call so far has had the copies of its arguments where the input has
\* them
AtInputLocations ==
  \A v \in DOMAIN g : g[v].addr < HeapBase + CopyStride

\* C9: a second run on the same input, its values at the same locations,
\* ends with the IDs and the definition points of the first run.
C9_SameAnalysisEveryRun ==
  pc = "done" /\ run > 1 /\ AtInputLocations =>
    /\ referenceIDs = prevIDs
    /\ definitionPoints = prevDefs

\* the call has passed resetState and nothing else: the pre-scan of the first
\* root is about to start
AtCallStart ==
  /\ pc = "prescan"
  /\ ri = 1
  /\ traversed = {}
  /\ queue = << [v |-> roots[1], level |-> 0] >>

\* the tracking fields as NewDumper creates them
FreshDumper ==
  /\ referenceStats = EmptyMap
  /\ referenceIDs = EmptyMap
  /\ canonicalRoots = EmptyMap
  /\ primitiveInstances = EmptyMap
  /\ definitionPoints = EmptyMap
  /\ renderedIDs = EmptyMap
  /\ fakeAddrs = EmptyMap

\* C11: a call on a Dumper that has served earlier calls starts its analysis
\* from the tracking state of a freshly constructed Dumper (every tracking
\* map is empty, nothing of the pending BFS, unification or rendering is
\* left), so the call proceeds as on a fresh Dumper, and the labels it
\* assigns start again at &1.
C11_ResetEqualsFresh ==
  /\ AtCallStart =>
        /\ FreshDumper
        /\ groups = {} /\ stack = <<>> /\ out = <<>> /\ visitLog = <<>>
  /\ (run > 1 /\ IDsAssigned /\ DOMAIN referenceIDs # {}) =>
        \E k \in DOMAIN referenceIDs : referenceIDs[k] = Label(1)

\* the second call on a Dumper whose first call left IDs, definition points
\* and synthetic addresses behind has just reset the state
C11_Witness ==
  /\ run > 1
  /\ AtCallStart
  /\ DOMAIN prevIDs # {}
  /\ DOMAIN prevDefs # {}
  /\ \E i \in 1..Len(g) : g[i].kind = "prim" /\ ~g[i].canAddr

\* the running goroutine is in (or has finished) the call it makes while the
\* other goroutine is calling as well, and what the same call produced when
\* it ran alone is on record
InConcurrentCall == run = MaxRuns /\ solo[cur].set

\* an address, a key, with the place of a call's copy of an argument
\* replaced by the place the input gives that argument
BaseAddr(a) ==
  IF a >= HeapBase + CopyStride
    THEN HeapBase + ((a - HeapBase) % CopyStride)
    ELSE a

BaseKey(k) == [k EXCEPT !.addr = BaseAddr(@)]

\* IDs, definition points and output with the keys so replaced: what two
\* calls with the same arguments can have in common
IDsOf(ids) == { << BaseKey(k), ids[k] >> : k \in DOMAIN ids }

DefsOf(defs) ==
  { << BaseKey(k), [defs[k] EXCEPT !.instanceKey = BaseKey(@)] >> : k \in DOMAIN defs }

OutOf(o) ==
  [i \in 1..Len(o) |-> [o[i] EXCEPT !.root = BaseKey(@), !.inst = BaseKey(@)]]

\* the running call has the IDs and the definition points it has when run
\* alone, and when it has returned, the output
CallAsAlone ==
  /\ pc # "crashed"
  /\ pc \in {"render", "done"} =>
        /\ IDsOf(referenceIDs) = IDsOf(solo[cur].ids)
        /\ DefsOf(definitionPoints) = DefsOf(solo[cur].defs)
  /\ pc = "done" => OutOf(out) = OutOf(solo[cur].out)

\* C12: two calls on the same Dumper that interleave each produce the IDs,
\* the definition points and the output they produce when run alone.
C12_SharedDumperGoroutineSafe ==
  (shared /\ InConcurrentCall) => CallAsAlone

\* C13: two interleaved calls that have a Dumper each produce the IDs and
\* the definition points (and the output) they produce when run alone.
C13_OwnDumperNoInterference ==
  (~shared /\ InConcurrentCall) => CallAsAlone

\* a call with a Dumper of its own has finished its analysis with an ID
\* while the other goroutine's call is in the middle of its own analysis
C13_Witness ==
  /\ ~shared
  /\ InConcurrentCall
  /\ pc = "render"
  /\ DOMAIN referenceIDs # {}
  /\ parked.run = MaxRuns
  /\ parked.pc \in {"prescan", "unify", "unify2", "assign", "defpoints"}

\* the occurrence has no derivable identity: behind its pointers and
\* interfaces there is nil, or a non-addressable value that is neither a
\* primitive nor a non-nil map, slice, channel or function, or a
\* non-addressable primitive that is read-only
NoIdentity(v) ==
  \/ deref(v) = 0
  \/ /\ ~g[deref(v)].canAddr
     /\ ~isPrimitiveKind(g[deref(v)].kind)
     /\ ~(g[deref(v)].kind \in {"map", "slice", "chan", "func"}
          /\ g[deref(v)].ptr # 0)
  \/ /\ ~g[deref(v)].canAddr
     /\ isPrimitiveKind(g[deref(v)].kind)
     /\ g[deref(v)].ro

\* the pre-scan and the definition pass leave the tracking maps alone when
\* the item they take from the queue has no identity
KeylessUntracked ==
  /\ (pc = "prescan" /\ queue # <<>> /\ NoIdentity(Head(queue).v)) =>
        /\ referenceStats' = referenceStats
        /\ primitiveInstances' = primitiveInstances
        /\ fakeAddrs' = fakeAddrs
  /\ (pc = "defpoints" /\ queue # <<>> /\ NoIdentity(Head(queue).v)) =>
        /\ definitionPoints' = definitionPoints
        /\ canonicalRoots' = canonicalRoots

\* the keys getRawKey has for the occurrence v: the one it returns now,
\* or, for a NaN, whose lookup never finds an earlier entry, the locations
\* of the NaN entries of its type
KeysOf(v) ==
  IF /\ deref(v) # 0
     /\ isPrimitiveKind(g[deref(v)].kind)
     /\ ~g[deref(v)].canAddr
     /\ g[deref(v)].fl = "nan"
    THEN { Key(fakeAddrs[s], g[deref(v)].typ) :
             s \in { e \in DOMAIN fakeAddrs : e[1] = g[deref(v)].typ /\ e[3] > 0 } }
    ELSE { getRawKey(fakeAddrs, v).key }

\* every key of the tracking maps is the key of an occurrence with an
\* identity, and the renderer printed neither an ID nor a back-reference for
\* an occurrence without one
KeylessPlain ==
  /\ \A k \in DOMAIN referenceStats \cup DOMAIN referenceIDs
                \cup DOMAIN definitionPoints \cup DOMAIN canonicalRoots :
        \E v \in 1..Len(g) : ~NoIdentity(v) /\ k \in KeysOf(v)
  /\ \A i \in 1..Len(out) :
        (out[i].v = 0 \/ NoIdentity(out[i].v)) =>
          /\ out[i].act \in {"plain", "cont", "nil", "invalid", "maxdepth"}
          /\ ~out[i].hasID
  /\ pc # "crashed" \/ out = <<>>

\* C14: an occurrence without a derivable canonical key (nil pointer or
\* interface, non-addressable struct, read-only non-addressable primitive)
\* adds nothing to the statistics, gets
\* no ID and no definition point, and is rendered plainly (no ID, no
\* back-reference) without the render failing.
C14_KeylessExcluded == [](KeylessPlain) /\ [][KeylessUntracked]_vars

\* a call has come to its end after it rendered an interface that holds a
\* non-addressable struct: the interface passed the reference check as a
\* plain value and the struct in it was expanded
C14_Witness ==
  /\ pc = "done"
  /\ \E i \in 1..(Len(out) - 1) :
        /\ out[i].v # 0
        /\ g[out[i].v].kind = "iface"
        /\ NoIdentity(out[i].v)
        /\ out[i].act = "plain"
        /\ out[i + 1].v = g[out[i].v].elem
        /\ g[out[i + 1].v].kind = "struct"
        /\ out[i + 1].act = "cont"
        /\ out[i + 1].pushed > 0

\* the occurrences one step below the occurrence v: the fields, elements,
\* keys and values of the value behind its pointers and interfaces
Below(v) ==
  IF deref(v) = 0 THEN {}
  ELSE { g[deref(v)].kids[i] : i \in 1..Len(g[deref(v)].kids) }
       \cup { g[deref(v)].keys[i] : i \in 1..Len(g[deref(v)].keys) }

RECURSIVE ReachFrom(_)
ReachFrom(S) ==
  LET T == S \cup UNION { Below(v) : v \in S \ {0} }
  IN  IF T = S THEN S ELSE ReachFrom(T)

\* the valid occurrences reachable from the root values
Reachable == ReachFrom({ roots[i] : i \in 1..Len(roots) }) \ {0}

\* the pre-scan of all roots is over
PreScanDone == pc \in {"unify", "unify2", "defpoints", "render", "done"}

\* C15: after the pre-scan every reachable occurrence with a derivable key
\* has been counted: the total of each key is at least the number of
\* reachable occurrences that have this key.
C15_PreScanCountsAllReachable ==
  PreScanDone =>
    \A v \in Reachable :
      getRawKey(fakeAddrs, v).ok =>
        /\ getRawKey(fakeAddrs, v).key \in DOMAIN referenceStats
        /\ referenceStats[getRawKey(fakeAddrs, v).key].total >=
             Cardinality({ w \in Reachable :
                             /\ getRawKey(fakeAddrs, w).ok
                             /\ getRawKey(fakeAddrs, w).key
                                  = getRawKey(fakeAddrs, v).key })

\* the reachable occurrences whose canonical key is k
OccurrencesOf(k) ==
  { w \in Reachable : getRawKey(fakeAddrs, w).ok /\ getRawKey(fakeAddrs, w).key = k }

\* C16: in the pre-scan of one call no occurrence is counted more than once,
\* whatever the number of roots that reach its composite: the total of a key
\* is at most the number of reachable occurrences that have this key.
C16_NoOccurrenceCountedTwice ==
  PreScanDone =>
    \A k \in DOMAIN referenceStats :
      referenceStats[k].total <= Cardinality(OccurrencesOf(k))

\* the value an occurrence holds once its interfaces are unwrapped
RECURSIVE Unwrapped(_)
Unwrapped(v) ==
  IF v # 0 /\ g[v].kind = "iface" THEN Unwrapped(g[v].elem) ELSE v

\* a pointer, or a non-nil map, slice, channel or function, held directly
\* or in an interface
PointerLike(v) ==
  /\ Unwrapped(v) # 0
  /\ \/ g[Unwrapped(v)].kind = "ptr"
     \/ /\ g[Unwrapped(v)].kind \in {"map", "slice", "chan", "func"}
        /\ g[Unwrapped(v)].ptr # 0

\* the counts of key k, zero when the key has no entry
CountOf(st, k) ==
  IF k \in DOMAIN st THEN st[k] ELSE [total |-> 0, ptr |-> 0]

\* one step of the pre-scan on an occurrence with a key adds one to the
\* total of the key, and one to its pointer count exactly when the
\* occurrence is pointer-like
CountsByKind ==
  (pc = "prescan" /\ queue # <<>> /\ Head(queue).v # 0
     /\ getRawKey(fakeAddrs, Head(queue).v).ok) =>
    LET v == Head(queue).v
        k == getRawKey(fakeAddrs, v).key
    IN  /\ CountOf(referenceStats', k).total = CountOf(referenceStats, k).total + 1
        /\ CountOf(referenceStats', k).ptr =
             CountOf(referenceStats, k).ptr + (IF PointerLike(v) THEN 1 ELSE 0)

\* C17: the pre-scan counts an occurrence as a pointer-like reference
\* exactly when it is a pointer or a non-nil map or slice, directly or inside
\* an interface; any other occurrence raises only the total.
C17_PointerLikeCounted == [][CountsByKind]_vars

\* unifyAllCopies is returning: every value list has been processed
UnifyDone == pc = "unify2" /\ groups = {}

\* the fingerprint groups of the call: the value lists with two keys or more
FingerprintGroups ==
  { S \in ValueToKeys(referenceStats) : Cardinality(S) >= 2 }

SourcesOf(S) == { k \in S : referenceStats[k].ptr > 0 }
CopiesOf(S) == { k \in S : referenceStats[k].ptr = 0 }

\* all keys of S are in one union-find class
OneClass(S) ==
  \A a, b \in S : RootOf(canonicalRoots, a) = RootOf(canonicalRoots, b)

\* C18: after copy unification every fingerprint group, primitive or
\* composite, with exactly one source and at least one copy has all its keys
\* in one union-find class.
C18_OneSourceAbsorbsCopies ==
  UnifyDone =>
    \A S \in FingerprintGroups :
      (Cardinality(SourcesOf(S)) = 1 /\ CopiesOf(S) # {}) => OneClass(S)

\* unification has run on a composite group with one source and at least
\* one copy (a struct value and a pointed-to struct that print alike), and
\* a key of the group has another key of the group as its root
C18_Witness ==
  /\ UnifyDone
  /\ \E S \in FingerprintGroups :
        /\ Cardinality(SourcesOf(S)) = 1
        /\ CopiesOf(S) # {}
        /\ \A k \in S : ~referenceStats[k].isPrimitive
        /\ OneClass(S)
        /\ \E a, b \in S : a # b /\ canonicalRoots[a] = RootOf(canonicalRoots, b)

\* the keys of S in ascending order of location
ByLocation(S) == SortKeys(S)

\* the i-th source is in the class of the i-th copy, and the n pairs are n
\* different classes
PairedByLocation(S) ==
  LET ss == ByLocation(SourcesOf(S))
      cs == ByLocation(CopiesOf(S))
  IN  /\ \A i \in 1..Len(ss) :
            RootOf(canonicalRoots, ss[i]) = RootOf(canonicalRoots, cs[i])
      /\ \A i, j \in 1..Len(ss) :
            i # j => RootOf(canonicalRoots, ss[i]) # RootOf(canonicalRoots, ss[j])

\* a primitive group with as many copies as sources, and several of them
AmbiguousPrimitives(S) ==
  /\ \A k \in S : referenceStats[k].isPrimitive
  /\ Cardinality(SourcesOf(S)) > 1
  /\ Cardinality(SourcesOf(S)) = Cardinality(CopiesOf(S))

\* C19: after copy unification a primitive fingerprint group with n > 1
\* sources and n copies forms n classes; the i-th holds the source and the
\* copy with the i-th smallest location, so no two sources and no two copies
\* share a class.
C19_PrimitivesPairedByLocation ==
  UnifyDone =>
    \A S \in FingerprintGroups : AmbiguousPrimitives(S) => PairedByLocation(S)

\* unification has paired the two pointed-to variables of a group with the
\* two equal fields
C19_Witness ==
  /\ UnifyDone
  /\ \E S \in FingerprintGroups :
        /\ AmbiguousPrimitives(S)
        /\ PairedByLocation(S)
        /\ \A k \in S : k \in DOMAIN canonicalRoots
        /\ \E k \in S : canonicalRoots[k] # k

\* a composite group that consists of sources only, several of them
SourcesOnly(S) ==
  /\ \A k \in S : ~referenceStats[k].isPrimitive
  /\ Cardinality(SourcesOf(S)) > 1
  /\ CopiesOf(S) = {}

\* C20: after copy unification all sources of a composite fingerprint
\* group with more than one source and no copy are in a single class.
C20_CompositeSourcesMerged ==
  UnifyDone =>
    \A S \in FingerprintGroups : SourcesOnly(S) => OneClass(SourcesOf(S))

\* unification has merged two slices that print alike and are both counted
\* as references (the sub-slice shared by two elements)
C20_Witness ==
  /\ UnifyDone
  /\ \E S \in FingerprintGroups :
        /\ SourcesOnly(S)
        /\ OneClass(SourcesOf(S))
        /\ \E a, b \in S : a # b /\ a \in DOMAIN canonicalRoots
                             /\ canonicalRoots[a] = b

\* the counted keys whose value is a composite of size zero
ZeroSizedKeys ==
  { k \in DOMAIN referenceStats :
      /\ IsZeroSizedType(k.typ)
      /\ referenceStats[k].valueKind \in {"struct", "array"} }

\* no other key is in the union-find class of k
AloneInClass(k) ==
  \A k2 \in AllKeys \ {k} :
     RootOf(canonicalRoots, k2) # RootOf(canonicalRoots, k)

\* C21: a key whose value is a zero-sized composite is never merged with
\* another key by copy unification, and once IDs are assigned it has an ID
\* when its own counts satisfy the sharing rule.
C21_ZeroSizedNeverMerged ==
  \A k \in ZeroSizedKeys :
     /\ AloneInClass(k)
     /\ (IDsAssigned
           /\ NeedsID([pointerReferencesCount |-> referenceStats[k].ptr,
                       totalReferencesCount |-> referenceStats[k].total]))
          => k \in DOMAIN referenceIDs

\* the fingerprint group S meets the condition of one of the three merge
\* rules of unifyAllCopies
MatchesMergeRule(S) ==
  \/ /\ \A k \in S : referenceStats[k].isPrimitive
     /\ Cardinality(SourcesOf(S)) > 1
     /\ Cardinality(SourcesOf(S)) = Cardinality(CopiesOf(S))
  \/ /\ \A k \in S : ~referenceStats[k].isPrimitive
     /\ Cardinality(SourcesOf(S)) > 1
     /\ CopiesOf(S) = {}
  \/ /\ Cardinality(SourcesOf(S)) = 1
     /\ CopiesOf(S) # {}

\* C22: after copy unification two distinct keys share a class only if they
\* are in one fingerprint group and that group met one of the three merge
\* rules; the keys of every other group are singleton classes.
C22_MergedOnlyByRule ==
  UnifyDone =>
    /\ \A a, b \in AllKeys :
          (a # b /\ RootOf(canonicalRoots, a) = RootOf(canonicalRoots, b)) =>
             \E S \in FingerprintGroups : a \in S /\ b \in S /\ MatchesMergeRule(S)
    /\ \A S \in FingerprintGroups :
          ~MatchesMergeRule(S) => \A k \in S : AloneInClass(k)

\* unification has left alone the keys of a composite group with two
\* sources and a copy and the keys of a group without a source
C22_Witness ==
  /\ UnifyDone
  /\ \E S \in FingerprintGroups :
        /\ SourcesOf(S) = {}
        /\ \A k \in S : AloneInClass(k)
  /\ \E S \in FingerprintGroups :
        /\ \A k \in S : ~referenceStats[k].isPrimitive
        /\ Cardinality(SourcesOf(S)) > 1
        /\ CopiesOf(S) # {}
        /\ \A k \in S : AloneInClass(k)

\* the statistics assignReferenceIDs obtains from getMergedStats when
\* unifyAllCopies has returned
MergedNow ==
  getMergedStats(FindAll(canonicalRoots, DOMAIN referenceStats), referenceStats)

RECURSIVE SumMerged(_, _, _)
SumMerged(merged, R, pointerOnly) ==
  IF R = {} THEN 0
  ELSE LET r == CHOOSE x \in R : TRUE
       IN  (IF pointerOnly THEN merged[r].pointerReferencesCount
                           ELSE merged[r].totalReferencesCount)
           + SumMerged(merged, R \ {r}, pointerOnly)

\* C23: the merged statistics have one entry per root of a counted key; the
\* entry of a root holds the sum of the total counts and the sum of the
\* pointer counts of exactly the keys whose root it is; every counted key
\* belongs to exactly one root, and the sums over all roots equal the sums
\* over all keys.
C23_MergedStatsAreClassSums ==
  UnifyDone =>
    /\ DOMAIN MergedNow = { RootOf(canonicalRoots, k) : k \in DOMAIN referenceStats }
    /\ \A r \in DOMAIN MergedNow :
          /\ MergedNow[r].totalReferencesCount = ClassTotal(r)
          /\ MergedNow[r].pointerReferencesCount = ClassPtr(r)
    /\ \A k \in DOMAIN referenceStats :
          Cardinality({ r \in DOMAIN MergedNow : k \in ClassOf(r) }) = 1
    /\ SumMerged(MergedNow, DOMAIN MergedNow, FALSE)
          = SumTotal(referenceStats, DOMAIN referenceStats)
    /\ SumMerged(MergedNow, DOMAIN MergedNow, TRUE)
          = SumPtr(referenceStats, DOMAIN referenceStats)

\* the statistics are merged for a class of two keys or more whose root has
\* smaller counts of its own, next to a root that stands for itself only
C23_Witness ==
  /\ UnifyDone
  /\ \E r \in DOMAIN MergedNow :
        /\ Cardinality(ClassOf(r)) > 1
        /\ MergedNow[r].totalReferencesCount > referenceStats[r].total
        /\ MergedNow[r].pointerReferencesCount > referenceStats[r].ptr
  /\ \E r \in DOMAIN MergedNow : ClassOf(r) = {r}

\* the non-addressable primitive occurrences of the input
NonAddrPrimitives ==
  { v \in 1..Len(g) : isPrimitiveKind(g[v].kind) /\ ~g[v].canAddr }

\* the same value of the same type (0.0 and -0.0 are two values, a NaN is
\* the same value as another NaN)
SameValue(v, w) ==
  g[v].val = g[w].val /\ g[v].fl = g[w].fl /\ g[v].typ = g[w].typ

\* getRawKey on v and then on w gives both of them the same key
SameKeyInTurn(v, w) ==
  /\ getRawKey(fakeAddrs, v).ok
  /\ getRawKey(getRawKey(fakeAddrs, v).fa, w).ok
  /\ getRawKey(getRawKey(fakeAddrs, v).fa, w).key = getRawKey(fakeAddrs, v).key

\* the addressable occurrences and the non-nil maps, slices, channels and
\* functions: what is keyed by a real address
RealKeyed ==
  { v \in 1..Len(g) :
      /\ deref(v) # 0
      /\ getRawKey(fakeAddrs, v).ok
      /\ (g[deref(v)].canAddr \/ ~isPrimitiveKind(g[deref(v)].kind)) }

\* equal values of equal type, and only those, are given one key; the
\* side table gives no location twice; no occurrence with a real address
\* has the key of a synthetic location
SyntheticKeysDistinct ==
  /\ \A v, w \in NonAddrPrimitives : SameKeyInTurn(v, w) <=> SameValue(v, w)
  /\ \A e, f \in DOMAIN fakeAddrs : e # f => fakeAddrs[e] # fakeAddrs[f]
  /\ \A v \in RealKeyed, e \in DOMAIN fakeAddrs :
        getRawKey(fakeAddrs, v).key.addr # fakeAddrs[e]

\* within one call an entry of the side table keeps its location
SyntheticKeysStable ==
  run' = run =>
    \A e \in DOMAIN fakeAddrs :
       e \in DOMAIN fakeAddrs' /\ fakeAddrs'[e] = fakeAddrs[e]

\* C24: within one call two non-addressable primitive occurrences are given
\* the same canonical key if and only if they have the same value and the
\* same type; a synthetic location given to a value stays with it, is given
\* to no other value and is the key of no other tracked value.
C24_SyntheticKeyPerValue ==
  [](SyntheticKeysDistinct) /\ [][SyntheticKeysStable]_vars

\* following at most n parent links from k ends at a key that is its own
\* parent, without leaving the parent map
RECURSIVE ClimbsToRoot(_, _, _)
ClimbsToRoot(cr, k, n) ==
  /\ k \in DOMAIN cr
  /\ \/ cr[k] = k
     \/ (n > 0 /\ ClimbsToRoot(cr, cr[k], n - 1))

\* the parent map is a forest
IsForest(cr) ==
  \A k \in DOMAIN cr : ClimbsToRoot(cr, k, Cardinality(DOMAIN cr))

\* a root lookup of k returns the root the parent links lead to, leaves a
\* forest in which k points at that root, and a second lookup returns the
\* same root
LookupSettles(cr, k) ==
  /\ IsForest(findRoot(cr, k))
  /\ {k, RootOf(cr, k)} \subseteq DOMAIN findRoot(cr, k)
  /\ findRoot(cr, k)[k] = RootOf(cr, k)
  /\ findRoot(cr, k)[RootOf(cr, k)] = RootOf(cr, k)
  /\ RootOf(findRoot(cr, k), k) = RootOf(cr, k)
  /\ findRoot(findRoot(cr, k), k) = findRoot(cr, k)

\* C25: at every point of a call the parent map is a forest: from every key
\* the parent links reach a key that is its own parent within as many steps
\* as there are keys, and a root lookup of any key returns that root, also
\* when it is repeated.
C25_ParentMapIsForest ==
  /\ IsForest(canonicalRoots)
  /\ \A k \in AllKeys : LookupSettles(canonicalRoots, k)

\* a key two parent links away from its root, before any lookup has
\* compressed the path
C25_Witness ==
  \E k \in DOMAIN canonicalRoots :
     /\ canonicalRoots[k] # k
     /\ canonicalRoots[canonicalRoots[k]] # canonicalRoots[k]
     /\ canonicalRoots[canonicalRoots[canonicalRoots[k]]]
          = canonicalRoots[canonicalRoots[k]]

\* a pass that has started has seen every root: each root value with a key
\* was counted before unification, and visited by the definition pass when
\* its class has an ID before rendering
AllRootsSeen ==
  /\ PreScanDone =>
        \A i \in 1..Len(roots) :
           getRawKey(fakeAddrs, roots[i]).ok =>
              getRawKey(fakeAddrs, roots[i]).key \in DOMAIN referenceStats
  /\ AnalysisDone =>
        \A i \in 1..Len(roots) :
           (/\ getRawKey(fakeAddrs, roots[i]).ok
            /\ RootOf(canonicalRoots, getRawKey(fakeAddrs, roots[i]).key)
                  \in DOMAIN referenceIDs)
             => \E j \in 1..Len(visitLog) : visitLog[j].v = roots[i]

\* a step of the call belongs to one pass: a pass is left only after its last
\* root, and each result is written by its own pass only
PassOrder ==
  /\ (pc = "prescan" /\ pc' # "prescan") => (ri = Len(roots) /\ pc' = "unify")
  /\ (pc = "unify") => pc' \in {"unify2", "crashed"}
  /\ (pc = "unify2" /\ pc' # "unify2") => (groups = {} /\ pc' = "defpoints")
  /\ (pc = "defpoints" /\ pc' # "defpoints") => (ri = Len(roots) /\ pc' = "render")
  /\ (pc = "render" /\ pc' # "render") => (ri = Len(roots) /\ pc' = "done")
  /\ referenceStats' # referenceStats => pc \in {"prescan", "idle", "done"}
  /\ referenceIDs' # referenceIDs => (pc \in {"idle", "done"} \/ (pc = "unify2" /\ groups = {}))
  /\ definitionPoints' # definitionPoints => pc \in {"defpoints", "idle", "done"}
  /\ (out' # out \/ renderedIDs' # renderedIDs) => pc \in {"render", "idle", "done"}
  /\ pc \in {"prescan", "unify"} => canonicalRoots' = canonicalRoots

\* C26: in a call with several roots every root is pre-scanned before
\* unification starts, unification and ID assignment are over before a
\* definition point is chosen, and the definition points of all roots are
\* fixed before the first value is rendered.
C26_PassesInOrder == [](AllRootsSeen) /\ [][PassOrder]_vars

\* a call with several roots has returned; a value shared between two roots
\* has one ID, the first root printed a back-reference to it and a later
\* root its definition
C26_Witness ==
  /\ pc = "done"
  /\ Len(roots) > 1
  /\ \E i, m, j \in 1..Len(out) :
        /\ i < m /\ m <= j
        /\ out[i].act = "backref"
        /\ out[m].v = roots[2] /\ out[m].level = 0 /\ ~out[m].skip
        /\ out[j].act = "def"
        /\ out[j].root = out[i].root
        /\ out[j].root \in DOMAIN referenceIDs

\* the pointers passed on the way from the occurrence v to the value that
\* deref(v) reaches; interfaces are passed through, a nil pointer is one hop
RECURSIVE PointerHops(_)
PointerHops(v) ==
  IF v = 0 THEN 0
  ELSE CASE g[v].kind = "ptr" -> 1 + PointerHops(g[v].elem)
         [] g[v].kind = "iface" -> PointerHops(g[v].elem)
         [] OTHER -> 0

\* C27: the indirection level the definition pass computes for an occurrence
\* is the number of pointer hops between the occurrence and the value it
\* denotes (what deref reaches), interfaces unwrapped, a nil pointer counted
\* as one hop.
C27_IndirectionIsHopCount ==
  \A j \in 1..Len(visitLog) :
     /\ visitLog[j].indirectionLevel = getIndirectionLevel(visitLog[j].v)
     /\ visitLog[j].indirectionLevel = PointerHops(visitLog[j].v)

\* unifyAllCopies has returned and the call is still running
AfterUnification == UnifyDone \/ pc \in {"defpoints", "render"}

\* a step after unification does no union: the parent map only gains keys
\* that are their own parent, an entry changes only to the root of its key,
\* and every key keeps its root
OnlyLookups ==
  AfterUnification =>
    /\ DOMAIN canonicalRoots \subseteq DOMAIN canonicalRoots'
    /\ \A k \in DOMAIN canonicalRoots' :
          /\ IF k \in DOMAIN canonicalRoots
               THEN canonicalRoots'[k] \in {canonicalRoots[k], RootOf(canonicalRoots, k)}
               ELSE canonicalRoots'[k] = k
          /\ RootOf(canonicalRoots', k) = RootOf(canonicalRoots, k)

\* IDs, definition points and rendered flags are stored under keys that are
\* roots, so the lookup of any member of the class finds them
StoredUnderRoots ==
  \A r \in DOMAIN referenceIDs \cup DOMAIN definitionPoints \cup DOMAIN renderedIDs :
     RootOf(canonicalRoots, r) = r

\* C28: after copy unification has returned no union is performed in the
\* rest of the call; the root lookups of ID assignment, definition-point
\* selection and rendering only compress paths or add singleton entries, so
\* every key keeps its root and what is stored under a root stays reachable
\* from every member of its class.
C28_NoUnionAfterUnification == [](StoredUnderRoots) /\ [][OnlyLookups]_vars

\* a call has returned in which a class of three keys has an ID and a
\* definition point under its root, every member points straight at the
\* root, and the renderer found the ID through a member that is not the root
C28_Witness ==
  /\ pc = "done"
  /\ \E r \in DOMAIN referenceIDs :
        /\ Cardinality(ClassOf(r)) >= 3
        /\ r \in DOMAIN definitionPoints
        /\ \A k \in ClassOf(r) : canonicalRoots[k] = r
        /\ \E i \in 1..Len(out) :
              /\ out[i].root = r
              /\ out[i].inst \in ClassOf(r) \ {r}
              /\ out[i].act \in {"def", "backref"}

\* C30: after any sequence of unions (and root lookups) the representative
\* of every class is a member of the class, and no member of the class has
\* a smaller location.
C30_RootHasSmallestLocation ==
  \A k \in DOMAIN canonicalRoots :
     /\ RootOf(canonicalRoots, k) \in DOMAIN canonicalRoots
     /\ RootOf(canonicalRoots, RootOf(canonicalRoots, k)) = RootOf(canonicalRoots, k)
     /\ RootOf(canonicalRoots, k).addr <= k.addr

\* unions have built a class of three keys or more in which a member is two
\* parent links away from the root and a member shares the root's location
C30_Witness ==
  \E k \in DOMAIN canonicalRoots :
     /\ canonicalRoots[k] # k
     /\ canonicalRoots[canonicalRoots[k]] # canonicalRoots[k]
     /\ RootOf(canonicalRoots, k).addr < canonicalRoots[k].addr
     /\ \E m \in DOMAIN canonicalRoots :
           /\ m # RootOf(canonicalRoots, k)
           /\ RootOf(canonicalRoots, m) = RootOf(canonicalRoots, k)
           /\ m.addr = RootOf(canonicalRoots, k).addr

\* C29: with reference tracking off, "<cycle>" is printed for an occurrence
\* only when the occurrence is reached from inside the expansion of the
\* value it denotes; values reached through a pointer and values shared by
\* several parents are rendered in full.
C29_CycleOnlyInOwnExpansion ==
  \A i \in 1..Len(out) : out[i].act = "cycle" => out[i].closing

====
